---- MODULE Spec2Model ----
(***************************************************************************)
(* Model of the two tool adapters of open-webui-collections:               *)
(*   Tools/jina_web_tools.py  (Tools.jina_web_scrape and its EventEmitter) *)
(*   Tools/knowledge_base.py  (Tools.query and its EventEmitter)           *)
(*                                                                         *)
(* A text (a Python str) is a sequence of tokens; a token is a TLA+ string *)
(* standing for that run of characters, so concatenation is \o on the      *)
(* sequences and the length of a text is the sum of its tokens' lengths.   *)
(* Where the code looks inside a str (urljoin, rfind, strip) the text is   *)
(* joined and handled character by character.  An optional value (None or  *)
(* a value) is a sequence of length 0 or 1; a pending exception is a       *)
(* record of its type name and its message.                                *)
(***************************************************************************)
EXTENDS Integers, Sequences, FiniteSets, TLC

\* ------------------------------------------------------------------ bounds
\* Longest input text handed to jina_web_scrape, in whitespace-separated words.
MaxWords == 2
\* The raising sink raises on one invocation, numbered 1..MaxRaiseAt.
MaxRaiseAt == 16
\* Longest results array of a knowledge-base response.
MaxResults == 2
\* Reporter calls issued by a caller that drives an EventEmitter directly.
MaxCalls == 3

\* Two invocations that run together: the words of an input text, and the
\* latest invocation on which a raising sink raises.
MaxTaskWords == 1
MaxTaskRaiseAt == 9

\* ------------------------------------------------------------------- texts
RECURSIVE TextLen(_)
\* len(text)
TextLen(t) == IF t = <<>> THEN 0 ELSE Len(Head(t)) + TextLen(Tail(t))

RECURSIVE Flatten(_)
\* "".join(parts)
Flatten(parts) == IF parts = <<>> THEN <<>> ELSE Head(parts) \o Flatten(Tail(parts))

\* str(d) for one decimal digit
Digit(d) == <<"0", "1", "2", "3", "4", "5", "6", "7", "8", "9">>[d + 1]

RECURSIVE ToStr(_)
\* str(n) for a natural number n, as one token
ToStr(n) == IF n < 10 THEN Digit(n) ELSE ToStr(n \div 10) \o Digit(n % 10)

RECURSIVE Repeat(_, _)
\* s * n
Repeat(s, n) ==
    IF n = 0 THEN ""
    ELSE IF n % 2 = 0 THEN LET h == Repeat(s, n \div 2) IN h \o h
    ELSE s \o Repeat(s, n - 1)

\* The description length up to which the web-scrape reporter repeats an event.
DescriptionLimit == 1024

\* A description longer than DescriptionLimit characters.
LongText == <<Repeat("a", DescriptionLimit + 1)>>

\* ------------------------------------------------------- character strings
\* "".join(t): the character string a text stands for
RECURSIVE Join(_)
Join(t) == IF t = <<>> THEN "" ELSE Head(t) \o Join(Tail(t))

\* s[i-1:] and s[:i] of Python, with character positions counted from 1
From(s, i) == IF i > Len(s) THEN "" ELSE SubSeq(s, i, Len(s))
Upto(s, i) == IF i >= Len(s) THEN s ELSE SubSeq(s, 1, i)

CharsOf(s) == {SubSeq(s, i, i) : i \in 1..Len(s)}

\* the least position of s holding a character of set, 0 when there is none
FirstOf(s, set) ==
    LET at == {i \in 1..Len(s) : SubSeq(s, i, i) \in set}
    IN  IF at = {} THEN 0 ELSE CHOOSE i \in at : \A j \in at : i <= j

\* the greatest position of s holding a character of set, 0 when there is none
LastOf(s, set) ==
    LET at == {i \in 1..Len(s) : SubSeq(s, i, i) \in set}
    IN  IF at = {} THEN 0 ELSE CHOOSE i \in at : \A j \in at : i >= j

\* s.split(c)
RECURSIVE Split(_, _)
Split(s, c) ==
    LET i == FirstOf(s, {c})
    IN  IF i = 0 THEN <<s>> ELSE <<Upto(s, i - 1)>> \o Split(From(s, i + 1), c)

\* c.join(parts)
RECURSIVE JoinWith(_, _)
JoinWith(parts, c) ==
    IF parts = <<>> THEN ""
    ELSE IF Len(parts) = 1 THEN Head(parts)
    ELSE Head(parts) \o c \o JoinWith(Tail(parts), c)

Letters == "abcdefghijklmnopqrstuvwxyzABCDEFGHIJKLMNOPQRSTUVWXYZ"
Digits == "0123456789"

\* s.lower() on ASCII letters
RECURSIVE lower(_)
lower(s) ==
    IF s = "" THEN ""
    ELSE LET c == SubSeq(s, 1, 1)
             at == {i \in 27..52 : SubSeq(Letters, i, i) = c}
         IN  (IF at = {} THEN c
              ELSE LET i == CHOOSE i \in at : TRUE
                   IN  SubSeq(Letters, i - 26, i - 26))
             \o lower(From(s, 2))

\* the least and the greatest position of s holding a character outside set
FirstNotOf(s, set) == FirstOf(s, CharsOf(s) \ set)
LastNotOf(s, set) == LastOf(s, CharsOf(s) \ set)

\* the positions of s at which sub begins
Occurrences(s, sub) ==
    {i \in 1..(Len(s) - Len(sub) + 1) : SubSeq(s, i, i + Len(sub) - 1) = sub}

RECURSIVE Take(_, _)
\* text[:n]
Take(t, n) ==
    IF n <= 0 \/ t = <<>> THEN <<>>
    ELSE IF Len(Head(t)) <= n THEN <<Head(t)>> \o Take(Tail(t), n - Len(Head(t)))
    ELSE <<Upto(Head(t), n)>>

RECURSIVE Drop(_, _)
\* text[n:]
Drop(t, n) ==
    IF t = <<>> THEN <<>>
    ELSE IF n <= 0 THEN t
    ELSE IF Len(Head(t)) <= n THEN Drop(Tail(t), n - Len(Head(t)))
    ELSE <<From(Head(t), n + 1)>> \o Tail(t)

\* ------------------------------------------------------------------- state
VARIABLES
    variant,        \* which EventEmitter class: "jina" or "kb"
    event_emitter,  \* the sink: "none", "plain", "awaitable", "raising", or
                    \* "noncallable" (a value that is no callable, such as 5)
    raiseAt,        \* the invocation at which a raising sink raises
    initial_prefix, \* the _status_prefix the emitter was constructed with
    status_prefix,  \* EventEmitter._status_prefix (optional text)
    sinkLog,        \* the events handed to the sink, in order
    calls,          \* the reporter calls issued, in order
    emitted,        \* emitted[i]: sink invocations made by calls[i]
    pending,        \* the _emit calls the running reporter call has yet to make
    awaiting,       \* suspended on the awaitable the sink returned
    exc,            \* the exception in flight (optional): its class and str(e)
    pc,             \* position of the task
    query,          \* input of the workflow
    urls,           \* jina_web_scrape: re.findall's matches
    idx,            \* jina_web_scrape: index in urls of the loop variable
    url,            \* jina_web_scrape: the loop variable
    jina_url,       \* jina_web_scrape: urljoin(self.base_url, url)
    all_results,    \* jina_web_scrape: the blocks appended so far
    response,       \* the upstream response being processed
    results,        \* query: response_data.get("results", [])
    error_msg,      \* the error_msg of the running except clause
    requests,       \* the outbound HTTP requests, in order
    outcomes,       \* how the request of each URL (of the query) ended: "ok",
                    \* "failed", "unexpected", or without request: "invalid"
                    \* (urljoin raised), "interrupted" (the sink raised first)
    answers,        \* what it got: the body, or str(e)
    retval,         \* the value returned (optional)
    parked          \* the other invocation on the same Tools object, while it
                    \* does not run (optional): its reporter and its locals

emitterVars == <<variant, event_emitter, raiseAt, initial_prefix, status_prefix>>
sinkVars == <<sinkLog, emitted, pending, awaiting>>
flowVars == <<query, urls, idx, url, jina_url, all_results, response, results,
              error_msg, requests, outcomes, answers, retval>>
vars == <<variant, event_emitter, raiseAt, initial_prefix, status_prefix, sinkLog,
          calls, emitted, pending, awaiting, exc, pc, query, urls, idx, url, jina_url,
          all_results, response, results, error_msg, requests, outcomes, answers,
          retval, parked>>

\* ---------------------------------------------------------------- reporter
StatusEvent(description, status, done) ==
    [type |-> "status",
     data |-> [status |-> status, description |-> description, done |-> done]]

\* EventEmitter.status: the prefixed description
Prefixed(description) ==
    IF status_prefix # <<>> THEN status_prefix[1] \o description ELSE description

\* EventEmitter.status with the repetition not guarded by the done flag
status_unguarded(description, st, done) ==
    LET d == Prefixed(description)
        ev == StatusEvent(d, st, done)
    IN IF variant = "jina" /\ TextLen(d) <= DescriptionLimit
       THEN <<ev, ev>>
       ELSE <<ev>>

\* EventEmitter.status: the events its _emit calls pass, in order
status(description, st, done) ==
    LET d == Prefixed(description)
        ev == StatusEvent(d, st, done)
    IN IF variant = "jina" /\ ~done /\ TextLen(d) <= DescriptionLimit
       THEN <<ev, ev>>
       ELSE <<ev>>

\* EventEmitter.fail reporting an error that is not final
fail_in_progress(description) == status(description, "error", FALSE)

\* EventEmitter.fail
fail(description) == status(description, "error", TRUE)

\* EventEmitter.citation
citation(document, metadata, source) ==
    <<[type |-> "citation",
       data |-> [document |-> document, metadata |-> metadata, source |-> source]]>>

\* EventEmitter.message
message(content) == <<[type |-> "message", data |-> [content |-> content]]>>

\* EventEmitter.code_execution_result
code_execution_result(output) ==
    <<[type |-> "code_execution_result", data |-> [output |-> output]]>>

\* An exception: its class and str(e).
Error(type, msg) == [type |-> type, msg |-> msg]

\* The classes of the runs that derive from BaseException and not from
\* Exception (an except Exception clause lets them pass), and those that
\* derive from requests.RequestException.
BaseOnly == {"CancelledError"}
RequestExceptions == {"RequestException"}

\* str(e) of the exception a raising sink raises, and the classes it may have
SinkError == <<"sink failed">>
SinkErrorTypes == {"RuntimeError", "RequestException", "CancelledError"}

\* str(e) of the TypeError of calling a sink that is no callable
NotCallable == <<"'int' object is not callable">>

\* A reporter method whose _emit calls the sink without testing that one is set
CallUnchecked(method, args, events) ==
    /\ calls' = Append(calls, [method |-> method, args |-> args])
    /\ emitted' = Append(emitted, 0)
    /\ pending' = events

\* A reporter method is entered: the call is recorded and its _emit calls are
\* pending; _emit returns at once when no sink is configured.
Call(method, args, events) ==
    /\ calls' = Append(calls, [method |-> method, args |-> args])
    /\ emitted' = Append(emitted, 0)
    /\ pending' = IF event_emitter = "none" THEN <<>> ELSE events

\* The reporter call has returned normally.
Ready == pending = <<>> /\ ~awaiting /\ exc = <<>>

\* EventEmitter._emit without the await: the awaitable of the sink is dropped, so
\* an asynchronous sink never runs and the call returns at once
EmitFireAndForget ==
    /\ pending # <<>> /\ ~awaiting /\ exc = <<>>
    /\ IF event_emitter = "noncallable"
       THEN /\ exc' = <<Error("TypeError", NotCallable)>>
            /\ pending' = <<>>
            /\ UNCHANGED <<sinkLog, emitted, awaiting>>
       ELSE IF event_emitter = "awaitable"
       THEN /\ UNCHANGED <<sinkLog, emitted, exc, awaiting>>
            /\ pending' = Tail(pending)
       ELSE /\ sinkLog' = Append(sinkLog, Head(pending))
            /\ emitted' = [emitted EXCEPT ![Len(calls)] = @ + 1]
            /\ awaiting' = FALSE
            /\ IF event_emitter = "raising" /\ Len(sinkLog) + 1 = raiseAt
               THEN /\ \E t \in SinkErrorTypes : exc' = <<Error(t, SinkError)>>
                    /\ pending' = <<>>
               ELSE exc' = exc /\ pending' = Tail(pending)
    /\ UNCHANGED <<parked, emitterVars, calls, pc, flowVars>>

\* EventEmitter._emit: the sink is invoked with the next event; it returns a plain
\* value, returns an awaitable (the task suspends), or raises. Calling a sink
\* that is no callable raises a TypeError and hands nothing over.
Emit ==
    /\ pending # <<>> /\ ~awaiting /\ exc = <<>>
    /\ IF event_emitter = "noncallable"
       THEN /\ exc' = <<Error("TypeError", NotCallable)>>
            /\ pending' = <<>>
            /\ UNCHANGED <<sinkLog, emitted, awaiting>>
       ELSE /\ sinkLog' = Append(sinkLog, Head(pending))
            /\ emitted' = [emitted EXCEPT ![Len(calls)] = @ + 1]
            /\ IF event_emitter = "raising" /\ Len(sinkLog) + 1 = raiseAt
               THEN /\ \E t \in SinkErrorTypes : exc' = <<Error(t, SinkError)>>
                    /\ pending' = <<>>
                    /\ awaiting' = FALSE
               ELSE /\ exc' = exc
                    /\ awaiting' = (event_emitter = "awaitable")
                    /\ pending' =
                          IF event_emitter = "awaitable" THEN pending ELSE Tail(pending)
    /\ UNCHANGED <<parked, emitterVars, calls, pc, flowVars>>

\* EventEmitter._emit: the awaited awaitable resolves and _emit returns.
SinkResolve ==
    /\ awaiting
    /\ awaiting' = FALSE
    /\ pending' = Tail(pending)
    /\ UNCHANGED <<parked, emitterVars, sinkLog, calls, emitted, exc, pc, flowVars>>

\* ------------------------------------------------- initial reporter state
\* The sinks a run is given: of each shape, the raising one raising at one of
\* its first n invocations.
SinkConfigs(n) ==
    {<<kind, 0>> : kind \in {"none", "plain", "awaitable", "noncallable"}}
        \cup {<<"raising", at>> : at \in 1..n}

\* EventEmitter.__post_init__ of the knowledge-base reporter: the ValueError
\* for a sink that is not None and not callable. The web-scrape reporter has
\* no such test.
post_init(v, sink) ==
    IF v = "kb" /\ sink = "noncallable"
    THEN <<Error("ValueError", <<"event_emitter must be callable">>)>>
    ELSE <<>>

\* The fields of a new EventEmitter of class v, for a sink of SinkConfigs(n)
\* and a _status_prefix of prefixes (the web-scrape reporter starts from None);
\* nothing is emitted yet.
InitEmitter(v, n, prefixes) ==
    /\ variant = v
    /\ \E c \in SinkConfigs(n) : event_emitter = c[1] /\ raiseAt = c[2]
    /\ initial_prefix \in (IF v = "kb" THEN prefixes ELSE {<<>>})
    /\ status_prefix = initial_prefix
    /\ sinkLog = <<>>
    /\ calls = <<>>
    /\ emitted = <<>>
    /\ pending = <<>>
    /\ awaiting = FALSE

InitFlow ==
    /\ urls = <<>>
    /\ idx = 0
    /\ url = <<>>
    /\ jina_url = <<>>
    /\ all_results = <<>>
    /\ response = <<>>
    /\ results = <<>>
    /\ error_msg = <<>>
    /\ requests = <<>>
    /\ outcomes = <<>>
    /\ answers = <<>>
    /\ retval = <<>>

\* ------------------------------------------- a caller driving the reporter
Descriptions == {<<"working">>, LongText}
StatusCodes == {"in_progress", "error"}
Prefixes == {<<"[scrape] ">>, <<"[kb] ">>}
\* the _status_prefix argument of the constructor: None, or a text
InitialPrefixes == {<<>>, <<<<"[kb] ">>>>}

CanCall == pc = "idle" /\ Ready /\ Len(calls) < MaxCalls

\* await emitter.status(description, status, done)
CallStatus ==
    /\ CanCall
    /\ \E d \in Descriptions, st \in StatusCodes, done \in BOOLEAN :
          Call("status", <<d, st, done>>, status(d, st, done))
    /\ UNCHANGED <<parked, emitterVars, sinkLog, awaiting, exc, pc, flowVars>>

\* await emitter.fail(description)
CallFail ==
    /\ CanCall
    /\ \E d \in Descriptions : Call("fail", <<d>>, fail(d))
    /\ UNCHANGED <<parked, emitterVars, sinkLog, awaiting, exc, pc, flowVars>>

\* await emitter.citation(document, metadata, source)
CallCitation ==
    /\ CanCall
    /\ Call("citation", <<<<"doc">>, {}, <<"src">>>>, citation(<<"doc">>, {}, <<"src">>))
    /\ UNCHANGED <<parked, emitterVars, sinkLog, awaiting, exc, pc, flowVars>>

\* await emitter.message(content): the web-scrape reporter only
CallMessage ==
    /\ CanCall /\ variant = "jina"
    /\ Call("message", <<<<"hello">>>>, message(<<"hello">>))
    /\ UNCHANGED <<parked, emitterVars, sinkLog, awaiting, exc, pc, flowVars>>

\* await emitter.code_execution_result(output): the web-scrape reporter only
CallCodeExecutionResult ==
    /\ CanCall /\ variant = "jina"
    /\ Call("code_execution_result", <<<<"out">>>>, code_execution_result(<<"out">>))
    /\ UNCHANGED <<parked, emitterVars, sinkLog, awaiting, exc, pc, flowVars>>

\* set_status_prefix that keeps a prefix once one is stored
SetStatusPrefixFirstOnly ==
    /\ CanCall
    /\ \E p \in Prefixes :
          /\ status_prefix' = IF status_prefix = <<>> THEN <<p>> ELSE status_prefix
          /\ Call("set_status_prefix", <<p>>, <<>>)
    /\ UNCHANGED <<parked, variant, event_emitter, raiseAt, initial_prefix, sinkLog, awaiting, exc,
                   pc, flowVars>>

\* emitter.set_status_prefix(status_prefix)
SetStatusPrefix ==
    /\ CanCall
    /\ \E p \in Prefixes :
          /\ status_prefix' = <<p>>
          /\ Call("set_status_prefix", <<p>>, <<>>)
    /\ UNCHANGED <<parked, variant, event_emitter, raiseAt, initial_prefix, sinkLog, awaiting, exc,
                   pc, flowVars>>

\* The sink's exception leaves the reporter method and reaches the caller.
CallRaises ==
    /\ pc = "idle" /\ exc # <<>>
    /\ exc' = <<>>
    /\ UNCHANGED <<parked, emitterVars, sinkVars, calls, pc, flowVars>>

\* The emitter is constructed; a caller issues at most MaxCalls calls, each of
\* at most two sink invocations. A constructor that raises leaves no emitter.
InitReporter ==
    /\ \E v \in {"jina", "kb"} : InitEmitter(v, 2 * MaxCalls, InitialPrefixes)
    /\ InitFlow
    /\ query = <<>>
    /\ exc = post_init(variant, event_emitter)
    /\ pc = IF exc = <<>> THEN "idle" ELSE "raised"
    /\ parked = <<>>

NextReporter ==
    \/ CallStatus
    \/ CallFail
    \/ CallCitation
    \/ CallMessage
    \/ CallCodeExecutionResult
    \/ SetStatusPrefix
    \/ Emit
    \/ SinkResolve
    \/ CallRaises

SpecReporter == InitReporter /\ [][NextReporter]_vars

\* ------------------------------------------------------ web scrape: helpers
\* Tools.__init__
base_url == <<"r.jina.ai/">>
timeout == 30
headers ==
    {<<"X-No-Cache", "true">>, <<"X-With-Images-Summary", "true">>,
     <<"X-With-Links-Summary", "true">>}

\* A word of the input is a sequence of segments. "https?://" of url_pattern:
SchemeSegs == {"http://", "https://"}
\* segments that begin with a character of [-\w.] or with %XX
HostSegs == {"a.com", "b.org", "see", "x", "%41", "http://", "https://"}

RECURSIVE MatchFrom(_, _)
\* url_pattern on one word: the first position k >= i where the scheme is followed
\* by a host character; the match runs to the end of the word ([^\s]*). 0: none.
MatchFrom(word, i) ==
    IF i >= Len(word) THEN 0
    ELSE IF word[i] \in SchemeSegs /\ word[i + 1] \in HostSegs THEN i
    ELSE MatchFrom(word, i + 1)

RECURSIVE FindAll(_)
\* re.findall(self.url_pattern, query): the matches, in the order of the text
FindAll(text) ==
    IF text = <<>> THEN <<>>
    ELSE LET w == Head(text)
             k == MatchFrom(w, 1)
         IN (IF k = 0 THEN <<>> ELSE <<SubSeq(w, k, Len(w))>>) \o FindAll(Tail(text))

\* url.startswith(('http://', 'https://'))
HasScheme(u) == u # <<>> /\ Head(u) \in SchemeSegs

\* lines 65-66
Normalize(u) == IF HasScheme(u) THEN u ELSE <<"https://">> \o u

\* ---- urllib.parse (CPython 3.11), character by character. Not modelled: the
\* control characters urlsplit strips from a URL, the NFKC test of a netloc
\* that is not ASCII, and bytes arguments; the URLs of the runs have none.
scheme_chars == CharsOf(Letters) \cup CharsOf(Digits) \cup {"+", "-", "."}
uses_relative ==
    {"", "ftp", "http", "gopher", "nntp", "imap", "wais", "file", "https",
     "shttp", "mms", "prospero", "rtsp", "rtsps", "rtspu", "sftp", "svn",
     "svn+ssh", "ws", "wss"}
uses_netloc ==
    {"", "ftp", "http", "gopher", "nntp", "telnet", "imap", "wais", "file",
     "mms", "https", "shttp", "snews", "prospero", "rtsp", "rtsps", "rtspu",
     "rsync", "svn", "svn+ssh", "sftp", "nfs", "git", "git+ssh", "ws", "wss"}
uses_params ==
    {"", "ftp", "hdl", "prospero", "http", "imap", "https", "shttp", "rtsp",
     "rtsps", "rtspu", "sip", "sips", "mms", "sftp", "tel"}

\* the bracketed hosts ipaddress.ip_address accepts, as far as the texts of
\* the runs write them
Ipv6Hosts == {"::1", "::"}
Ipv4Hosts == {"127.0.0.1"}
IpvFutureHosts == {"v1.a"}

\* _check_bracketed_host: the ValueError of a bracketed host, if any
check_bracketed_host(hostname) ==
    IF Upto(hostname, 1) = "v"
    THEN IF hostname \in IpvFutureHosts THEN <<>>
         ELSE <<"IPvFuture address is invalid">>
    ELSE IF hostname \in Ipv6Hosts THEN <<>>
    ELSE IF hostname \in Ipv4Hosts
    THEN <<"An IPv4 address cannot be in brackets">>
    ELSE <<"'" \o hostname \o "' does not appear to be an IPv4 or IPv6 address">>

\* the ValueError urlsplit raises for a netloc, if any
check_netloc(netloc) ==
    LET open == "[" \in CharsOf(netloc)
        close == "]" \in CharsOf(netloc)
        after == From(netloc, FirstOf(netloc, {"["}) + 1)
        end == FirstOf(after, {"]"})
        bracketed_host == IF end = 0 THEN after ELSE Upto(after, end - 1)
    IN  IF open # close THEN <<"Invalid IPv6 URL">>
        ELSE IF open THEN check_bracketed_host(bracketed_host)
        ELSE <<>>

\* urlsplit, last step: url.split('?', 1) gives the path and the query
split_query(err, scheme, netloc, rest, fragment) ==
    LET mark == FirstOf(rest, {"?"})
    IN  [exc |-> err, scheme |-> scheme, netloc |-> netloc,
         path |-> IF mark = 0 THEN rest ELSE Upto(rest, mark - 1),
         query |-> IF mark = 0 THEN "" ELSE From(rest, mark + 1),
         fragment |-> fragment]

\* urlsplit, after the netloc: its bracket test, then url.split('#', 1)
split_fragment(scheme, netloc, rest) ==
    LET hash == FirstOf(rest, {"#"})
    IN  split_query(check_netloc(netloc), scheme, netloc,
                    IF hash = 0 THEN rest ELSE Upto(rest, hash - 1),
                    IF hash = 0 THEN "" ELSE From(rest, hash + 1))

\* urlsplit, after the scheme: _splitnetloc(url, 2) when url[:2] == '//'
splitnetloc(scheme, rest) ==
    LET tail == From(rest, 3)
        delim == FirstOf(tail, {"/", "?", "#"})
    IN  IF Len(rest) >= 2 /\ Upto(rest, 2) = "//"
        THEN split_fragment(scheme,
                            IF delim = 0 THEN tail ELSE Upto(tail, delim - 1),
                            IF delim = 0 THEN "" ELSE From(tail, delim))
        ELSE split_fragment(scheme, "", rest)

\* urlsplit(url, scheme): the five components, and the ValueError instead
urlsplit(ref, default) ==
    LET i == FirstOf(ref, {":"})
    IN  IF /\ i > 1
           /\ SubSeq(ref, 1, 1) \in CharsOf(Letters)
           /\ \A j \in 1..(i - 1) : SubSeq(ref, j, j) \in scheme_chars
        THEN splitnetloc(lower(Upto(ref, i - 1)), From(ref, i + 1))
        ELSE splitnetloc(default, ref)

\* _splitparams of urlparse on the result r of urlsplit
splitparams(r) ==
    LET slash == LastOf(r.path, {"/"})
        semi == IF slash = 0 THEN FirstOf(r.path, {";"})
                ELSE LET k2 == FirstOf(From(r.path, slash), {";"})
                     IN  IF k2 = 0 THEN 0 ELSE slash - 1 + k2
        split == r.scheme \in uses_params /\ semi # 0
    IN  [exc |-> r.exc, scheme |-> r.scheme, netloc |-> r.netloc,
         path |-> IF split THEN Upto(r.path, semi - 1) ELSE r.path,
         params |-> IF split THEN From(r.path, semi + 1) ELSE "",
         query |-> r.query, fragment |-> r.fragment]

\* urlparse(url, scheme): urlsplit, with the params of the last path segment
urlparse(ref, default) == splitparams(urlsplit(ref, default))

\* urlunparse((scheme, netloc, url, params, query, fragment)), url holding
\* the params already
urlunsplit(scheme, netloc, u1, qry, fragment) ==
    LET u2 == IF netloc # "" \/ (scheme # "" /\ scheme \in uses_netloc
                                 /\ Upto(u1, 2) # "//")
              THEN "//" \o netloc
                   \o (IF u1 # "" /\ Upto(u1, 1) # "/" THEN "/" ELSE "") \o u1
              ELSE u1
    IN  (IF scheme # "" THEN scheme \o ":" \o u2 ELSE u2)
        \o (IF qry # "" THEN "?" \o qry ELSE "")
        \o (IF fragment # "" THEN "#" \o fragment ELSE "")

\* urlunparse((scheme, netloc, url, params, query, fragment))
urlunparse(scheme, netloc, path, params, qry, fragment) ==
    urlunsplit(scheme, netloc,
               IF params # "" THEN path \o ";" \o params ELSE path,
               qry, fragment)

\* the loop of urljoin over the segments: ".." pops, "." is skipped
RECURSIVE resolve(_, _)
resolve(segments, resolved_path) ==
    IF segments = <<>> THEN resolved_path
    ELSE resolve(Tail(segments),
                 IF Head(segments) = ".."
                 THEN SubSeq(resolved_path, 1, Len(resolved_path) - 1)
                 ELSE IF Head(segments) = "." THEN resolved_path
                 ELSE Append(resolved_path, Head(segments)))

\* urljoin: base_parts, bpath.split('/') without a last segment that is not
\* empty
base_parts(split) ==
    IF split[Len(split)] # "" THEN SubSeq(split, 1, Len(split) - 1) ELSE split

\* urljoin: segments[1:-1] = filter(None, segments[1:-1])
filter_segments(segments) ==
    IF Len(segments) < 2 THEN segments
    ELSE <<Head(segments)>>
         \o SelectSeq(SubSeq(segments, 2, Len(segments) - 1),
                      LAMBDA seg : seg # "")
         \o <<segments[Len(segments)]>>

\* urljoin: '/'.join(resolved_path) or '/', of the segments
resolved(segments) ==
    LET path == JoinWith(resolve(segments, <<>>)
                         \o (IF segments[Len(segments)] \in {".", ".."}
                             THEN <<"">> ELSE <<>>), "/")
    IN  IF path = "" THEN "/" ELSE path

\* urljoin: the segments of the path of the reference against the base's
segments_of(bpath, path) ==
    IF Upto(path, 1) = "/" THEN Split(path, "/")
    ELSE filter_segments(base_parts(Split(bpath, "/")) \o Split(path, "/"))

\* urljoin once base (b) and url (r) are parsed
join_parsed(ref, b, r) ==
    IF b.exc # <<>> THEN [exc |-> b.exc, value |-> ""]
    ELSE IF r.exc # <<>> THEN [exc |-> r.exc, value |-> ""]
    ELSE IF r.scheme # b.scheme \/ r.scheme \notin uses_relative
    THEN [exc |-> <<>>, value |-> ref]
    ELSE IF r.scheme \in uses_netloc /\ r.netloc # ""
    THEN [exc |-> <<>>,
          value |-> urlunparse(r.scheme, r.netloc, r.path, r.params,
                               r.query, r.fragment)]
    ELSE IF r.path = "" /\ r.params = ""
    THEN [exc |-> <<>>,
          value |-> urlunparse(r.scheme,
                               IF r.scheme \in uses_netloc THEN b.netloc
                               ELSE r.netloc,
                               b.path, b.params,
                               IF r.query = "" THEN b.query ELSE r.query,
                               r.fragment)]
    ELSE [exc |-> <<>>,
          value |-> urlunparse(r.scheme,
                               IF r.scheme \in uses_netloc THEN b.netloc
                               ELSE r.netloc,
                               resolved(segments_of(b.path, r.path)),
                               r.params, r.query, r.fragment)]

\* urljoin, the url parsed with the scheme of the base as its default
join_base(ref, b) == join_parsed(ref, b, urlparse(ref, b.scheme))

\* urllib.parse.urljoin(base, url) on character strings: the URL it returns,
\* or str(e) of the ValueError it raises
urljoin(base, ref) ==
    IF base = "" THEN [exc |-> <<>>, value |-> ref]
    ELSE IF ref = "" THEN [exc |-> <<>>, value |-> base]
    ELSE join_base(ref, urlparse(base, ""))

\* requests.get(jina_url, headers=self.headers, timeout=self.timeout)
GetRequest(u) ==
    [method |-> "GET", url |-> u, headers |-> headers, timeout |-> timeout]

\* The characters c with c.isspace() up to U+00FF: blank, \t, \n, \r, \f,
\* U+000B, U+001C to U+001F, U+0085, U+00A0.  The white-space characters
\* beyond U+00FF (U+1680, U+2000 to U+200A, U+2028, U+2029, U+202F, U+205F,
\* U+3000) cannot be written in a string of the module; no body of the runs
\* holds one.
Whitespace ==
    {" ", "\t", "\n", "\r", "\f",
     "", "", "", "", "", "", " "}

\* content.find(marker): the index of the first occurrence, -1 when absent
find(content, marker) ==
    LET at == Occurrences(Join(content), marker)
    IN IF at = {} THEN -1 ELSE (CHOOSE i \in at : \A j \in at : i <= j) - 1

\* content.rfind(marker): the index of the last occurrence, -1 when absent
rfind(content, marker) ==
    LET at == Occurrences(Join(content), marker)
    IN IF at = {} THEN -1 ELSE (CHOOSE i \in at : \A j \in at : i >= j) - 1

\* str.lstrip(): without the leading white-space characters
lstrip(t) ==
    LET first == FirstNotOf(Join(t), Whitespace)
    IN IF first = 0 THEN <<>> ELSE Drop(t, first - 1)

\* str.rstrip(): without the trailing white-space characters
rstrip(t) == Take(t, LastNotOf(Join(t), Whitespace))

\* str.strip()
strip(t) == lstrip(rstrip(t))

\* lines 88-91
ExtractContent(text) ==
    LET links_section_start == rfind(text, "Images:")
    IN IF links_section_start # -1
       THEN strip(Take(text, links_section_start))
       ELSE text

\* line 93
ResultBlock(u, content) ==
    <<"## Web Scrape Result for ">> \o u \o <<": \n\n">> \o content \o <<"\n\n">>

\* line 96
ScrapeErrorMsg(u, e) == <<"Failed to scrape ">> \o u \o <<": ">> \o e

\* line 98
ErrorBlock(u, msg) == <<"## Error scraping ">> \o u \o <<": \n">> \o msg \o <<"\n\n">>

\* line 102
UnexpectedErrorMsg(u, e) ==
    <<"Unexpected error while processing ">> \o u \o <<": ">> \o e

\* line 104
ProcessingBlock(u, msg) ==
    <<"## Error processing ">> \o u \o <<": \n">> \o msg \o <<"\n\n">>

\* line 56
NoUrlsMessage == <<"No valid URLs found to scrape.">>

\* ------------------------------------------------------- web scrape: inputs
Words ==
    {<<"see">>,
     <<"https://", "a.com">>,
     <<"x", "http://", "b.org", "/p">>,
     <<"https://", "/p">>,
     <<"http://", "a.com", "[">>}

Texts == UNION {[1..n -> Words] : n \in 0..MaxWords}

\* response.text of a 2xx answer: plain, with the marker twice, and with the
\* marker split over two tokens behind white space other than blank and \n
Bodies ==
    {<<" ", "page text", "\n">>,
     <<"\n", "intro", " ", "Images:", "caption", "\n", "Images:", "img1">>,
     <<"\r\n", "page", " text", "\f", "Ima", "ges: img2">>}

\* str(e) of a requests.RequestException: raise_for_status, or the transport
RequestErrors == {<<"503 Server Error">>, <<"Connection refused">>}

\* str(e) of an exception of requests.get that is no RequestException
OtherErrors == {<<"boom">>}

\* ------------------------------------------------------ web scrape: actions
\* The head of the for loop for position i of urls: lines 62-70 when a URL is
\* left (a ValueError of urljoin at line 68 is caught at line 101, before any
\* status of the URL and without a request), lines 107-111 when the loop is
\* over.
LoopNext(i) ==
    IF i <= Len(urls)
    THEN LET u == Normalize(urls[i])
             joined == urljoin(Join(base_url), Join(u))
         IN /\ idx' = i
            /\ url' = u
            /\ IF joined.exc = <<>>
               THEN /\ jina_url' = <<joined.value>>
                    /\ Call("status",
                            <<<<"Initiating Jina web scrape for: ">> \o u, "in_progress", FALSE>>,
                            status(<<"Initiating Jina web scrape for: ">> \o u, "in_progress", FALSE))
                    /\ pc' = "initiating"
                    /\ UNCHANGED <<error_msg, outcomes, answers>>
               ELSE /\ jina_url' = jina_url
                    /\ outcomes' = Append(outcomes, "invalid")
                    /\ answers' = Append(answers, joined.exc)
                    /\ error_msg' = UnexpectedErrorMsg(u, joined.exc)
                    /\ Call("status", <<error_msg', "error", FALSE>>,
                            status(error_msg', "error", FALSE))
                    /\ pc' = "unexpected"
    ELSE /\ UNCHANGED <<idx, url, jina_url, error_msg, outcomes, answers>>
         /\ Call("status",
                 <<<<"Completed scraping ", ToStr(Len(urls)), " URLs">>, "complete", TRUE>>,
                 status(<<"Completed scraping ", ToStr(Len(urls)), " URLs">>, "complete", TRUE))
         /\ pc' = "completing"

\* lines 49-58
ScrapeStart ==
    /\ pc = "scrape_start"
    /\ urls' = FindAll(query)
    /\ IF urls' = <<>>
       THEN /\ Call("status", <<<<"No valid URLs found in the input">>, "complete", TRUE>>,
                    status(<<"No valid URLs found in the input">>, "complete", TRUE))
            /\ pc' = "no_urls"
       ELSE /\ Call("status",
                    <<<<"Found ", ToStr(Len(urls')), " URLs to scrape">>, "in_progress", FALSE>>,
                    status(<<"Found ", ToStr(Len(urls')), " URLs to scrape">>, "in_progress", FALSE))
            /\ pc' = "found"
    /\ UNCHANGED <<parked, emitterVars, sinkLog, awaiting, exc, query, idx, url, jina_url, all_results,
                   response, results, error_msg, requests, outcomes, answers, retval>>

\* line 56
ScrapeReturnNoUrls ==
    /\ pc = "no_urls" /\ Ready
    /\ retval' = <<NoUrlsMessage>>
    /\ pc' = "returned"
    /\ UNCHANGED <<parked, emitterVars, sinkVars, calls, exc, query, urls, idx, url, jina_url, all_results,
                   response, results, error_msg, requests, outcomes, answers>>

\* lines 60-70, or 60-68 and 101-103
ScrapeEnterLoop ==
    /\ pc = "found" /\ Ready
    /\ all_results' = <<>>
    /\ LoopNext(1)
    /\ UNCHANGED <<parked, emitterVars, sinkLog, awaiting, exc, query, urls, response, results,
                   requests, retval>>

\* line 73
ScrapePrepare ==
    /\ pc = "initiating" /\ Ready
    /\ Call("status",
            <<<<"Preparing request to Jina service for ">> \o url \o <<"...">>, "in_progress", FALSE>>,
            status(<<"Preparing request to Jina service for ">> \o url \o <<"...">>, "in_progress", FALSE))
    /\ pc' = "preparing"
    /\ UNCHANGED <<parked, emitterVars, sinkLog, awaiting, exc, flowVars>>

\* line 77
ScrapeSend ==
    /\ pc = "preparing" /\ Ready
    /\ Call("status",
            <<<<"Sending request to Jina service for ">> \o url \o <<"...">>, "in_progress", FALSE>>,
            status(<<"Sending request to Jina service for ">> \o url \o <<"...">>, "in_progress", FALSE))
    /\ pc' = "sending"
    /\ UNCHANGED <<parked, emitterVars, sinkLog, awaiting, exc, flowVars>>

\* lines 82-85: the GET answers 2xx
ScrapeGetOk ==
    /\ pc = "sending" /\ Ready
    /\ requests' = Append(requests, GetRequest(jina_url))
    /\ outcomes' = Append(outcomes, "ok")
    /\ \E body \in Bodies : response' = <<body>>
    /\ answers' = Append(answers, response'[1])
    /\ Call("status",
            <<<<"Processing response from Jina service for ">> \o url \o <<"...">>, "in_progress", FALSE>>,
            status(<<"Processing response from Jina service for ">> \o url \o <<"...">>, "in_progress", FALSE))
    /\ pc' = "processing"
    /\ UNCHANGED <<parked, emitterVars, sinkLog, awaiting, exc, query, urls, idx, url, jina_url, all_results,
                   results, error_msg, retval>>

\* lines 82-83, 95-97 with the failure of the URL reported through emitter.fail
ScrapeGetFailedTerminal ==
    /\ pc = "sending" /\ Ready
    /\ requests' = Append(requests, GetRequest(jina_url))
    /\ outcomes' = Append(outcomes, "failed")
    /\ \E e \in RequestErrors :
          /\ answers' = Append(answers, e)
          /\ error_msg' = ScrapeErrorMsg(url, e)
          /\ Call("fail", <<error_msg'>>, fail(error_msg'))
    /\ pc' = "request_failed"
    /\ UNCHANGED <<parked, emitterVars, sinkLog, awaiting, exc, query, urls, idx, url, jina_url, all_results,
                   response, results, retval>>

\* lines 82-83, 95-97: the GET raises a requests.RequestException
ScrapeGetFailed ==
    /\ pc = "sending" /\ Ready
    /\ requests' = Append(requests, GetRequest(jina_url))
    /\ outcomes' = Append(outcomes, "failed")
    /\ \E e \in RequestErrors :
          /\ answers' = Append(answers, e)
          /\ error_msg' = ScrapeErrorMsg(url, e)
          /\ Call("status", <<error_msg', "error", FALSE>>, status(error_msg', "error", FALSE))
    /\ pc' = "request_failed"
    /\ UNCHANGED <<parked, emitterVars, sinkLog, awaiting, exc, query, urls, idx, url, jina_url, all_results,
                   response, results, retval>>

\* lines 82, 101-103 with the GET tried a second time before giving up
ScrapeGetUnexpectedRetry ==
    /\ pc = "sending" /\ Ready
    /\ requests' = requests \o <<GetRequest(jina_url), GetRequest(jina_url)>>
    /\ outcomes' = Append(outcomes, "unexpected")
    /\ \E e \in OtherErrors :
          /\ answers' = Append(answers, e)
          /\ error_msg' = UnexpectedErrorMsg(url, e)
          /\ Call("status", <<error_msg', "error", FALSE>>, status(error_msg', "error", FALSE))
    /\ pc' = "unexpected"
    /\ UNCHANGED <<parked, emitterVars, sinkLog, awaiting, exc, query, urls, idx, url, jina_url, all_results,
                   response, results, retval>>

\* lines 82, 101-103: the GET raises another exception
ScrapeGetUnexpected ==
    /\ pc = "sending" /\ Ready
    /\ requests' = Append(requests, GetRequest(jina_url))
    /\ outcomes' = Append(outcomes, "unexpected")
    /\ \E e \in OtherErrors :
          /\ answers' = Append(answers, e)
          /\ error_msg' = UnexpectedErrorMsg(url, e)
          /\ Call("status", <<error_msg', "error", FALSE>>, status(error_msg', "error", FALSE))
    /\ pc' = "unexpected"
    /\ UNCHANGED <<parked, emitterVars, sinkLog, awaiting, exc, query, urls, idx, url, jina_url, all_results,
                   response, results, retval>>

\* lines 87-93, then the next iteration
ScrapeAppendResult ==
    /\ pc = "processing" /\ Ready
    /\ all_results' = Append(all_results, ResultBlock(url, ExtractContent(response[1])))
    /\ LoopNext(idx + 1)
    /\ UNCHANGED <<parked, emitterVars, sinkLog, awaiting, exc, query, urls, response, results,
                   requests, retval>>

\* lines 98-99 with a break in the place of the continue
ScrapeAppendErrorBreak ==
    /\ pc = "request_failed" /\ Ready
    /\ all_results' = Append(all_results, ErrorBlock(url, error_msg))
    /\ LoopNext(Len(urls) + 1)
    /\ UNCHANGED <<parked, emitterVars, sinkLog, awaiting, exc, query, urls, response, results,
                   requests, retval>>

\* lines 98-99, then the next iteration
ScrapeAppendError ==
    /\ pc = "request_failed" /\ Ready
    /\ all_results' = Append(all_results, ErrorBlock(url, error_msg))
    /\ LoopNext(idx + 1)
    /\ UNCHANGED <<parked, emitterVars, sinkLog, awaiting, exc, query, urls, response, results,
                   requests, retval>>

\* lines 104-105 without the append
ScrapeSkipUnexpected ==
    /\ pc = "unexpected" /\ Ready
    /\ all_results' = all_results
    /\ LoopNext(idx + 1)
    /\ UNCHANGED <<parked, emitterVars, sinkLog, awaiting, exc, query, urls, response, results,
                   requests, retval>>

\* lines 104-105, then the next iteration
ScrapeAppendUnexpected ==
    /\ pc = "unexpected" /\ Ready
    /\ all_results' = Append(all_results, ProcessingBlock(url, error_msg))
    /\ LoopNext(idx + 1)
    /\ UNCHANGED <<parked, emitterVars, sinkLog, awaiting, exc, query, urls, response, results,
                   requests, retval>>

\* The positions of the await expressions inside the outer try block (lines 63-99).
InOuterTry == {"initiating", "preparing", "sending", "processing", "request_failed"}

\* lines 95-97: the status call of line 85 stands inside the inner try block,
\* so a requests.RequestException it raises is handled as a failed request
ScrapeCatchRequest ==
    /\ pc = "processing" /\ exc # <<>>
    /\ exc[1].type \in RequestExceptions
    /\ error_msg' = ScrapeErrorMsg(url, exc[1].msg)
    /\ exc' = <<>>
    /\ Call("status", <<error_msg', "error", FALSE>>, status(error_msg', "error", FALSE))
    /\ pc' = "request_failed"
    /\ UNCHANGED <<parked, emitterVars, sinkLog, awaiting, query, urls, idx, url, jina_url,
                   all_results, response, results, requests, outcomes, answers, retval>>

\* the status calls of lines 70, 73 and 77, which precede the GET of line 82
BeforeGet == {"initiating", "preparing", "sending"}

\* lines 101-103: any other Exception of a status call inside the try block;
\* one of a status call that precedes the GET ends the iteration without request
ScrapeCatch ==
    /\ pc \in InOuterTry /\ exc # <<>>
    /\ exc[1].type \notin BaseOnly
    /\ pc = "processing" => exc[1].type \notin RequestExceptions
    /\ error_msg' = UnexpectedErrorMsg(url, exc[1].msg)
    /\ exc' = <<>>
    /\ Call("status", <<error_msg', "error", FALSE>>, status(error_msg', "error", FALSE))
    /\ pc' = "unexpected"
    /\ IF pc \in BeforeGet
       THEN /\ outcomes' = Append(outcomes, "interrupted")
            /\ answers' = Append(answers, exc[1].msg)
       ELSE UNCHANGED <<outcomes, answers>>
    /\ UNCHANGED <<parked, emitterVars, sinkLog, awaiting, query, urls, idx, url, jina_url,
                   all_results, response, results, requests, retval>>

\* An exception of a status call outside the try block (lines 55, 58, 103, 107),
\* or one inside it that is no Exception, leaves jina_web_scrape.
ScrapeRaise ==
    /\ pc \in {"no_urls", "found", "unexpected", "completing"} \cup InOuterTry
    /\ exc # <<>>
    /\ pc \in InOuterTry => exc[1].type \in BaseOnly
    /\ pc' = "raised"
    /\ UNCHANGED <<parked, emitterVars, sinkVars, calls, exc, flowVars>>

\* line 114
ScrapeReturn ==
    /\ pc = "completing" /\ Ready
    /\ retval' = <<Flatten(all_results)>>
    /\ pc' = "returned"
    /\ UNCHANGED <<parked, emitterVars, sinkVars, calls, exc, query, urls, idx, url, jina_url, all_results,
                   response, results, error_msg, requests, outcomes, answers>>

InitScrape ==
    /\ InitEmitter("jina", MaxRaiseAt, {<<>>})
    /\ InitFlow
    /\ exc = <<>>
    /\ query \in Texts
    /\ pc = "scrape_start"
    /\ parked = <<>>

NextScrape ==
    \/ ScrapeStart
    \/ ScrapeReturnNoUrls
    \/ ScrapeEnterLoop
    \/ ScrapePrepare
    \/ ScrapeSend
    \/ ScrapeGetOk
    \/ ScrapeGetFailed
    \/ ScrapeGetUnexpected
    \/ ScrapeAppendResult
    \/ ScrapeAppendError
    \/ ScrapeAppendUnexpected
    \/ ScrapeCatchRequest
    \/ ScrapeCatch
    \/ ScrapeRaise
    \/ ScrapeReturn
    \/ Emit
    \/ SinkResolve

SpecScrape == InitScrape /\ [][NextScrape]_vars

\* -------------------------------------------------- knowledge base: helpers
\* Tools.__init__: base_url.rstrip('/') of the default address, and the headers
kb_base_url == <<"http://0.0.0.0:8082">>
kb_headers == {<<"token", "your-secret-token">>, <<"Content-Type", "application/json">>}

\* the defaults of query's parameters
k == 10
score_threshold == "0.3"

\* A JSON object is a record of optional fields: dict.get(key, default)
Get(field, default) == IF field = <<>> THEN default ELSE field[1]

\* lines 106-111, 119-123
PostRequest(q) ==
    [method |-> "POST", url |-> kb_base_url \o <<"/query">>, headers |-> kb_headers,
     json |-> [query |-> q, k |-> k, filter_dict |-> <<>>,
               score_threshold |-> score_threshold]]

\* line 160
QueryErrorMsg(e) == <<"Error querying knowledge base: ">> \o e

\* lines 129-155 with the test of the results array left out
ResponseStatusNoEmptyTest(response_data) ==
    IF response_data.status[1] = "success"
    THEN <<<<"Found ", ToStr(Len(Get(response_data.results, <<>>))),
             " relevant documents">>, "success", TRUE>>
    ELSE <<Get(response_data.message, <<"Query failed">>), "error", TRUE>>

\* lines 129-155: the arguments of the status call that reports a response that
\* has a status field
ResponseStatus(response_data) ==
    IF response_data.status[1] = "success"
    THEN IF Get(response_data.results, <<>>) # <<>>
         THEN <<<<"Found ", ToStr(Len(Get(response_data.results, <<>>))),
                  " relevant documents">>, "success", TRUE>>
         ELSE <<Get(response_data.message, <<"No relevant documents found">>),
                "no_results", TRUE>>
    ELSE <<Get(response_data.message, <<"Query failed">>), "error", TRUE>>

\* lines 139-143 with the default source left empty
CitationOfNoSource(result) ==
    citation(Get(result.content, <<>>), Get(result.metadata, {}),
             Get(result.source, <<>>))

\* lines 139-143: the citation of one result
CitationOf(result) ==
    citation(Get(result.content, <<>>), Get(result.metadata, {}),
             Get(result.source, <<"knowledge_base">>))

\* --------------------------------------------------- knowledge base: inputs
QueryTexts == {<<"cats">>}

\* The elements of a results array: document records with or without their
\* fields, and an element that is no JSON object.
Elements ==
    {[isdict |-> TRUE, content |-> <<<<"a">>>>, metadata |-> <<{<<"page", "1">>}>>,
      source |-> <<<<"s">>>>],
     [isdict |-> TRUE, content |-> <<>>, metadata |-> <<>>, source |-> <<>>],
     [isdict |-> FALSE, content |-> <<>>, metadata |-> <<>>, source |-> <<>>]}

ResultSeqs == UNION {[1..n -> Elements] : n \in 0..MaxResults}

\* response.json() of a 2xx answer
ResponseDatas ==
    [status : {<<>>, <<"success">>, <<"error">>},
     message : {<<>>, <<<<"custom message">>>>},
     results : {<<>>} \cup {<<rs>> : rs \in ResultSeqs}]

\* str(e) of what requests.post, raise_for_status or response.json() raise
PostErrors == {<<"Connection refused">>, <<"500 Server Error">>, <<"Expecting value">>}

\* str(e) of the KeyError of response_data["status"]
KeyErrorStatus == <<"'status'">>

\* str(e) of the AttributeError of result.get on an element that is no mapping
AttributeErrorGet == <<"'str' object has no attribute 'get'">>

\* -------------------------------------------------- knowledge base: actions
\* lines 159-162: the except clause is entered with exception e
Handle(e) ==
    /\ error_msg' = QueryErrorMsg(e)
    /\ Call("fail", <<error_msg'>>, fail(error_msg'))
    /\ pc' = "failing"

\* lines 97-103: the ValueError of the constructor (line 97) is raised before
\* the try block is entered
QueryStart ==
    /\ pc = "query_start"
    /\ IF post_init(variant, event_emitter) # <<>>
       THEN /\ exc' = post_init(variant, event_emitter)
            /\ pc' = "raised"
            /\ UNCHANGED <<calls, emitted, pending>>
       ELSE /\ exc' = exc
            /\ Call("status", <<<<"Preparing to search knowledge base...">>, "in_progress", FALSE>>,
                    status(<<"Preparing to search knowledge base...">>, "in_progress", FALSE))
            /\ pc' = "kb_preparing"
    /\ UNCHANGED <<parked, emitterVars, sinkLog, awaiting, flowVars>>

\* lines 106-116
QuerySearch ==
    /\ pc = "kb_preparing" /\ Ready
    /\ Call("status", <<<<"Searching knowledge base for: ">> \o query, "searching", FALSE>>,
            status(<<"Searching knowledge base for: ">> \o query, "searching", FALSE))
    /\ pc' = "searching"
    /\ UNCHANGED <<parked, emitterVars, sinkLog, awaiting, exc, flowVars>>

\* lines 119-126, 159-162: the POST, raise_for_status or response.json() raises
QueryPostFailed ==
    /\ pc = "searching" /\ Ready
    /\ requests' = Append(requests, PostRequest(query))
    /\ outcomes' = Append(outcomes, "failed")
    /\ \E e \in PostErrors : answers' = Append(answers, e) /\ Handle(e)
    /\ UNCHANGED <<parked, emitterVars, sinkLog, awaiting, exc, query, urls, idx, url, jina_url, all_results,
                   response, results, retval>>

\* lines 119-155: the POST answers 2xx with a JSON object
QueryPostOk ==
    /\ pc = "searching" /\ Ready
    /\ requests' = Append(requests, PostRequest(query))
    /\ outcomes' = Append(outcomes, "ok")
    /\ \E response_data \in ResponseDatas :
          /\ response' = <<response_data>>
          /\ answers' = Append(answers, response_data)
          /\ results' = Get(response_data.results, <<>>)
          /\ IF response_data.status = <<>>
             THEN Handle(KeyErrorStatus)
             ELSE LET a == ResponseStatus(response_data)
                  IN /\ error_msg' = error_msg
                     /\ Call("status", a, status(a[1], a[2], a[3]))
                     /\ pc' = IF a[2] = "success" THEN "citing" ELSE "finishing"
    /\ idx' = 0
    /\ UNCHANGED <<parked, emitterVars, sinkLog, awaiting, exc, query, urls, url, jina_url, all_results,
                   retval>>

\* lines 138-143: one iteration of the citation loop
QueryCite ==
    /\ pc = "citing" /\ Ready /\ idx < Len(results)
    /\ LET result == results[idx + 1]
       IN IF result.isdict
          THEN /\ Call("citation",
                       <<Get(result.content, <<>>), Get(result.metadata, {}),
                         Get(result.source, <<"knowledge_base">>)>>,
                       CitationOf(result))
               /\ idx' = idx + 1
               /\ UNCHANGED <<pc, error_msg>>
          ELSE /\ Handle(AttributeErrorGet)
               /\ idx' = idx
    /\ UNCHANGED <<parked, emitterVars, sinkLog, awaiting, exc, query, urls, url, jina_url, all_results,
                   response, results, requests, outcomes, answers, retval>>

\* line 157 returning an empty list where no citation was emitted
QueryReturnCitedOnly ==
    /\ pc \in {"citing", "finishing"} /\ Ready
    /\ pc = "citing" => idx = Len(results)
    /\ retval' = <<IF pc = "citing" THEN results ELSE <<>>>>
    /\ pc' = "returned"
    /\ UNCHANGED <<parked, emitterVars, sinkVars, calls, exc, query, urls, idx, url, jina_url, all_results,
                   response, results, error_msg, requests, outcomes, answers>>

\* line 157
QueryReturn ==
    /\ pc \in {"citing", "finishing"} /\ Ready
    /\ pc = "citing" => idx = Len(results)
    /\ retval' = <<results>>
    /\ pc' = "returned"
    /\ UNCHANGED <<parked, emitterVars, sinkVars, calls, exc, query, urls, idx, url, jina_url, all_results,
                   response, results, error_msg, requests, outcomes, answers>>

\* The positions of the await expressions inside the try block (lines 99-157).
InTry == {"kb_preparing", "searching", "citing", "finishing"}

\* lines 159-162: an Exception of a reporter call inside the try block is caught
QueryCatch ==
    /\ pc \in InTry /\ exc # <<>>
    /\ exc[1].type \notin BaseOnly
    /\ Handle(exc[1].msg)
    /\ exc' = <<>>
    /\ UNCHANGED <<parked, emitterVars, sinkLog, awaiting, query, urls, idx, url, jina_url,
                   all_results, response, results, requests, outcomes, answers, retval>>

\* line 163 returning the results parsed so far
QueryReturnParsed ==
    /\ pc = "failing" /\ Ready
    /\ retval' = <<results>>
    /\ pc' = "returned"
    /\ UNCHANGED <<parked, emitterVars, sinkVars, calls, exc, query, urls, idx, url, jina_url, all_results,
                   response, results, error_msg, requests, outcomes, answers>>

\* line 163
QueryReturnEmpty ==
    /\ pc = "failing" /\ Ready
    /\ retval' = <<<<>>>>
    /\ pc' = "returned"
    /\ UNCHANGED <<parked, emitterVars, sinkVars, calls, exc, query, urls, idx, url, jina_url, all_results,
                   response, results, error_msg, requests, outcomes, answers>>

\* An exception of the fail call of the except clause (line 162), or one
\* inside the try block that is no Exception, leaves query.
QueryRaise ==
    /\ pc \in {"failing"} \cup InTry
    /\ exc # <<>>
    /\ pc \in InTry => exc[1].type \in BaseOnly
    /\ pc' = "raised"
    /\ UNCHANGED <<parked, emitterVars, sinkVars, calls, exc, flowVars>>

InitQuery ==
    /\ InitEmitter("kb", MaxRaiseAt, {<<>>})
    /\ InitFlow
    /\ exc = <<>>
    /\ query \in QueryTexts
    /\ pc = "query_start"
    /\ parked = <<>>

NextQuery ==
    \/ QueryStart
    \/ QuerySearch
    \/ QueryPostFailed
    \/ QueryPostOk
    \/ QueryCite
    \/ QueryReturn
    \/ QueryCatch
    \/ QueryReturnEmpty
    \/ QueryRaise
    \/ Emit
    \/ SinkResolve

SpecQuery == InitQuery /\ [][NextQuery]_vars

\* ------------------------------------------------------- the whole program
Init == InitScrape \/ InitQuery \/ InitReporter

Next == NextScrape \/ NextQuery \/ NextReporter

Spec == Init /\ [][Next]_vars

\* The two workflow operations, without the caller that drives a reporter.
InitWorkflows == InitScrape \/ InitQuery

NextWorkflows == NextScrape \/ NextQuery

SpecWorkflows == InitWorkflows /\ [][NextWorkflows]_vars

\* --------------------------------------- two invocations on one Tools object
\* jina_web_scrape and query keep everything they change in locals (the
\* reporter of line 49 / line 97 and what follows it) and only read the fields
\* of Tools. The variables above are the reporter and the locals of the
\* invocation that runs; parked holds those of the other one.
Task ==
    [variant |-> variant, event_emitter |-> event_emitter, raiseAt |-> raiseAt,
     initial_prefix |-> initial_prefix, status_prefix |-> status_prefix,
     sinkLog |-> sinkLog, calls |-> calls, emitted |-> emitted, pending |-> pending,
     awaiting |-> awaiting, exc |-> exc, pc |-> pc, query |-> query, urls |-> urls,
     idx |-> idx, url |-> url, jina_url |-> jina_url, all_results |-> all_results,
     response |-> response, results |-> results, error_msg |-> error_msg,
     requests |-> requests, outcomes |-> outcomes, answers |-> answers,
     retval |-> retval]

\* The reporter of the invocation t is the one in use again.
ResumeReporter(t) ==
    /\ variant' = t.variant
    /\ event_emitter' = t.event_emitter
    /\ raiseAt' = t.raiseAt
    /\ initial_prefix' = t.initial_prefix
    /\ status_prefix' = t.status_prefix
    /\ sinkLog' = t.sinkLog
    /\ calls' = t.calls
    /\ emitted' = t.emitted
    /\ pending' = t.pending
    /\ awaiting' = t.awaiting

\* The locals of the invocation t, with the list of blocks kept in one place for
\* both invocations (as a field of Tools would be).
ResumeLocalsSharedResults(t) ==
    /\ exc' = t.exc
    /\ pc' = t.pc
    /\ query' = t.query
    /\ urls' = t.urls
    /\ idx' = t.idx
    /\ url' = t.url
    /\ jina_url' = t.jina_url
    /\ all_results' = all_results
    /\ response' = t.response
    /\ results' = t.results
    /\ error_msg' = t.error_msg
    /\ requests' = t.requests
    /\ outcomes' = t.outcomes
    /\ answers' = t.answers
    /\ retval' = t.retval

\* The locals of the invocation t are the ones in use again: each coroutine
\* frame has its own.
ResumeLocals(t) ==
    /\ exc' = t.exc
    /\ pc' = t.pc
    /\ query' = t.query
    /\ urls' = t.urls
    /\ idx' = t.idx
    /\ url' = t.url
    /\ jina_url' = t.jina_url
    /\ all_results' = t.all_results
    /\ response' = t.response
    /\ results' = t.results
    /\ error_msg' = t.error_msg
    /\ requests' = t.requests
    /\ outcomes' = t.outcomes
    /\ answers' = t.answers
    /\ retval' = t.retval

\* An invocation of workflow v with the sink c and the input q that has not run
\* yet.
NewTask(v, c, q) ==
    [variant |-> v, event_emitter |-> c[1], raiseAt |-> c[2],
     initial_prefix |-> <<>>, status_prefix |-> <<>>,
     sinkLog |-> <<>>, calls |-> <<>>, emitted |-> <<>>, pending |-> <<>>,
     awaiting |-> FALSE, exc |-> <<>>,
     pc |-> IF v = "jina" THEN "scrape_start" ELSE "query_start",
     query |-> q, urls |-> <<>>, idx |-> 0, url |-> <<>>, jina_url |-> <<>>,
     all_results |-> <<>>, response |-> <<>>, results |-> <<>>, error_msg |-> <<>>,
     requests |-> <<>>, outcomes |-> <<>>, answers |-> <<>>, retval |-> <<>>]

\* The input texts of the invocations that run together.
TaskTexts == UNION {[1..n -> Words] : n \in 0..MaxTaskWords}

\* The sinks of the invocations that run together: one that returns an
\* awaitable, so that its invocation is suspended at every event, and one that
\* raises inside the try block and returns a plain value before and after: on
\* the first event of a query (line 100), on a late one of a scrape (line 85).
TaskSinks(v) ==
    {<<"awaitable", 0>>, <<"raising", IF v = "kb" THEN 1 ELSE MaxTaskRaiseAt>>}

\* The invocations that run together: each has its own sink.
NewTasks ==
    {NewTask("jina", c, q) : c \in TaskSinks("jina"), q \in TaskTexts}
        \cup {NewTask("kb", c, q) : c \in TaskSinks("kb"), q \in QueryTexts}

\* A coroutine gives up control only where it awaits something that is not done
\* yet: the awaitable its sink returned (jina_web_tools.py:149,
\* knowledge_base.py:43). time.sleep and requests block the whole event loop.
Suspended == awaiting
NotStarted == pc \in {"scrape_start", "query_start"}
Finished == pc \in {"returned", "raised"}

\* While the first invocation is suspended, or before it has run, the caller's
\* second coroutine gets to run.
Spawn ==
    /\ parked = <<>>
    /\ Suspended \/ NotStarted
    /\ parked' = <<Task>>
    /\ \E t \in NewTasks : ResumeReporter(t) /\ ResumeLocals(t)

\* The event loop lets the other invocation run, which has not run yet or
\* whose awaitable is done, while this one is suspended, has not run yet, or
\* is finished.
Switch ==
    /\ parked # <<>>
    /\ Suspended \/ NotStarted \/ Finished
    /\ parked[1].pc \notin {"returned", "raised"}
    /\ parked' = <<Task>>
    /\ ResumeReporter(parked[1])
    /\ ResumeLocals(parked[1])

InitConcurrent ==
    /\ InitWorkflows
    /\ Task \in NewTasks

NextConcurrent == NextScrape \/ NextQuery \/ Spawn \/ Switch

SpecConcurrent == InitConcurrent /\ [][NextConcurrent]_vars

\* ============================================================== properties
\* The task has returned a value to its caller / has raised to its caller.
Returned == pc = "returned"
Raised == pc = "raised"

\* The sink has raised during this invocation, or it is no callable, so that
\* the constructor or every call of it raises.
SinkRaised ==
    \/ event_emitter = "raising" /\ Len(sinkLog) >= raiseAt
    \/ event_emitter = "noncallable"

\* A sink that can be called is configured.
HasSink == event_emitter \in {"plain", "awaitable", "raising"}

IsStatus(ev) == ev.type = "status"
IsStatusCall(c) == c.method = "status"

\* t begins with the tokens of prefix
StartsWith(t, prefix) ==
    Len(t) >= Len(prefix) /\ SubSeq(t, 1, Len(prefix)) = prefix

RECURSIVE PositionsFrom(_, _, _)
\* the positions j >= i of t that hold a token of the set, in increasing order
PositionsFrom(t, i, set) ==
    IF i > Len(t) THEN <<>>
    ELSE (IF t[i] \in set THEN <<i>> ELSE <<>>) \o PositionsFrom(t, i + 1, set)

\* The returned text is the concatenation of one block per discovered URL, in
\* discovery order, each block starting with a marker of the set followed by its
\* URL, and the text holds no other marker.
OneMarkerPerUrl(text, markers) ==
    LET at == PositionsFrom(text, 1, markers)
    IN /\ text = Flatten(all_results)
       /\ Len(all_results) = Len(urls)
       /\ \A i \in 1..Len(urls) :
             /\ Head(all_results[i]) \in markers
             /\ StartsWith(Tail(all_results[i]), Normalize(urls[i]))
       /\ Len(at) = Len(urls)
       /\ \A i \in 1..Len(urls) :
             StartsWith(SubSeq(text, at[i] + 1, Len(text)), Normalize(urls[i]))

\* ---------------------------------------------------------------------- C1
\* C1: every status call of the reporter, in both adapters and for every
\* description, status code and done flag, hands the sink exactly one event:
\* never two, and exactly one once the call has returned from a sink that
\* returns.
C1_StatusEmitsOnce ==
    \A i \in 1..Len(calls) :
        IsStatusCall(calls[i]) =>
            /\ emitted[i] <= 1
            /\ ((i < Len(calls) \/ Ready) /\ event_emitter \in {"plain", "awaitable"})
                  => emitted[i] = 1

\* ---------------------------------------------------------------------- C2
\* C2: scrape and query never raise to their caller, whatever the input, the
\* upstream outcome and the behaviour of the sink (a raising sink included).
C2_NeverRaises == ~Raised

\* ---------------------------------------------------------------------- C3
ResultMarker == "## Web Scrape Result for "
ErrorMarker == "## Error scraping "
ProcessingMarker == "## Error processing "

CountStatusCalls == Len(SelectSeq(calls, IsStatusCall))
CountStatusEvents == Len(SelectSeq(sinkLog, IsStatus))

\* C3 as stated: a scrape of N >= 1 URLs that returns has emitted at least N+2
\* status events and its text holds exactly N block markers, each "## Web Scrape
\* Result for" or "## Error scraping", one per URL in discovery order.
C3_TwoMarkersOnly ==
    (Returned /\ Len(urls) >= 1) =>
        /\ CountStatusCalls >= Len(urls) + 2
        /\ HasSink => CountStatusEvents >= Len(urls) + 2
        /\ OneMarkerPerUrl(retval[1], {ResultMarker, ErrorMarker})

\* C3 amended: a scrape of N >= 1 URLs that returns has emitted at least N+2
\* status events and its text holds exactly N block markers, one per URL in
\* discovery order, each "## Web Scrape Result for", "## Error scraping" or, for
\* a URL whose processing met an unexpected exception (of the GET, or of urljoin
\* rejecting the URL), "## Error processing".
C3_OneBlockPerUrl ==
    (Returned /\ Len(urls) >= 1) =>
        /\ CountStatusCalls >= Len(urls) + 2
        /\ HasSink => CountStatusEvents >= Len(urls) + 2
        /\ OneMarkerPerUrl(retval[1], {ResultMarker, ErrorMarker, ProcessingMarker})
        /\ ~SinkRaised =>
              \A i \in 1..Len(urls) :
                 Head(all_results[i]) = ProcessingMarker
                    <=> outcomes[i] \in {"unexpected", "invalid"}

\* Two URLs, the first answered 2xx, the second processed with an unexpected
\* exception of the GET.
C3_Witness ==
    /\ Returned /\ Len(urls) = 2
    /\ outcomes = <<"ok", "unexpected">>
    /\ Head(all_results[2]) = ProcessingMarker
    /\ HasSink

\* ---------------------------------------------------------------------- C4
\* The request URL line 68 computes for the URL at position j, or the ValueError.
JoinedUrl(j) == urljoin(Join(base_url), Join(Normalize(urls[j])))

RECURSIVE Built(_)
\* the number of URLs among the first n whose iteration reached the GET
Built(n) ==
    IF n = 0 THEN 0
    ELSE Built(n - 1) + (IF outcomes[n] \in {"invalid", "interrupted"} THEN 0 ELSE 1)

\* The GET of the URL at position j was issued: it is the request that follows
\* those of the earlier URLs.
Requested(j) ==
    /\ outcomes[j] \notin {"invalid", "interrupted"}
    /\ Built(j) <= Len(requests)
    /\ requests[Built(j)] = GetRequest(<<JoinedUrl(j).value>>)

\* The block of every URL whose GET failed starts with "## Error scraping {url}:".
FailedBlocks ==
    \A i \in 1..Len(all_results) :
        outcomes[i] = "failed" =>
            StartsWith(all_results[i], <<ErrorMarker>> \o Normalize(urls[i]) \o <<": \n">>)

\* C4 as stated: a failed GET (non-2xx or transport failure) at any position i
\* never aborts the batch: with a sink that does not raise, scrape does not
\* raise, a scrape that has returned has issued the request of every URL after
\* i and holds one block per URL, and the block of every URL whose GET failed
\* starts with "## Error scraping {url}:".
C4_FailureDoesNotAbort ==
    ~SinkRaised =>
        /\ ~Raised
        /\ FailedBlocks
        /\ Returned =>
              \A i \in 1..Len(outcomes) :
                 outcomes[i] = "failed" =>
                    /\ Len(outcomes) = Len(urls)
                    /\ Len(all_results) = Len(urls)
                    /\ retval = <<Flatten(all_results)>>
                    /\ \A j \in (i + 1)..Len(urls) : Requested(j)

\* The sink raised, and it did so when it was handed a status event with one of
\* the descriptions.
RaisedOn(descriptions) ==
    /\ event_emitter = "raising" /\ Len(sinkLog) >= raiseAt
    /\ IsStatus(sinkLog[raiseAt])
    /\ sinkLog[raiseAt].data.description \in descriptions

\* The descriptions of the status calls of lines 70, 73 and 77 for the URL u.
ProgressOf(u) ==
    {<<"Initiating Jina web scrape for: ">> \o u,
     <<"Preparing request to Jina service for ">> \o u \o <<"...">>,
     <<"Sending request to Jina service for ">> \o u \o <<"...">>}

\* The block of every URL whose GET failed starts with "## Error scraping
\* {url}:", unless the sink raised an Exception on the status event that reports
\* this failure: then it starts with "## Error processing {url}:".
FailedBlocksUnlessSinkRaised ==
    \A i \in 1..Len(all_results) :
        outcomes[i] = "failed" =>
            \/ StartsWith(all_results[i], <<ErrorMarker>> \o Normalize(urls[i]) \o <<": \n">>)
            \/ /\ RaisedOn({ScrapeErrorMsg(Normalize(urls[i]), answers[i])})
               /\ StartsWith(all_results[i],
                             <<ProcessingMarker>> \o Normalize(urls[i]) \o <<": \n">>)

\* C4 amended: a failed GET at any position i never aborts the batch: scrape
\* raises only if the sink raised; a scrape that has returned holds one block
\* per URL and has processed every URL after i, issuing its request unless
\* urljoin rejected the URL or the sink raised an Exception on one of the three
\* status events that precede the request (such a URL has an "## Error
\* processing" block and no request); and the block of every URL whose GET
\* failed starts with "## Error scraping {url}:", unless the sink raised an
\* Exception on the status event reporting that failure, which gives the URL an
\* "## Error processing" block.
C4_BatchContinues ==
    /\ Raised => SinkRaised
    /\ FailedBlocksUnlessSinkRaised
    /\ Returned =>
          \A i \in 1..Len(outcomes) :
             outcomes[i] = "failed" =>
                /\ Len(outcomes) = Len(urls)
                /\ Len(all_results) = Len(urls)
                /\ retval = <<Flatten(all_results)>>
                /\ Len(requests) = Built(Len(urls))
                /\ \A j \in (i + 1)..Len(urls) :
                      /\ outcomes[j] = "invalid" <=> JoinedUrl(j).exc # <<>>
                      /\ outcomes[j] = "interrupted" =>
                            RaisedOn(ProgressOf(Normalize(urls[j])))
                      /\ IF outcomes[j] \in {"invalid", "interrupted"}
                         THEN Head(all_results[j]) = ProcessingMarker
                         ELSE Requested(j)

\* Two URLs, the GET of the first failed and the second was still requested and
\* answered.
C4_Witness ==
    /\ Returned /\ Len(urls) = 2
    /\ outcomes = <<"failed", "ok">>
    /\ Head(all_results[2]) = ResultMarker

\* ---------------------------------------------------------------------- C5
\* C5: for an input text without URL match, scrape issues no outbound request
\* and hands the sink at most one event, and a scrape that has returned has
\* returned the fixed message after handing a configured sink exactly one event,
\* a status event with done = true; it raises only if the sink raised.
C5_NoUrls ==
    (pc # "scrape_start" /\ FindAll(query) = <<>>) =>
        /\ requests = <<>>
        /\ Len(sinkLog) <= 1
        /\ Raised => SinkRaised
        /\ Returned =>
              /\ retval = <<NoUrlsMessage>>
              /\ HasSink =>
                    /\ Len(sinkLog) = 1
                    /\ IsStatus(sinkLog[1])
                    /\ sinkLog[1].data.done = TRUE

\* A non-empty text without URL match, returned with a sink configured.
C5_Witness ==
    /\ Returned /\ query # <<>> /\ FindAll(query) = <<>>
    /\ HasSink /\ Len(sinkLog) = 1

\* ---------------------------------------------------------------------- C6
\* C6: every GET of scrape is addressed to the upstream service, its URL being
\* the base address followed by the normalized target URL, never the target URL
\* itself.
C6_RequestsGoToBase ==
    \A i \in 1..Len(requests) :
        /\ \E j \in 1..Len(urls) :
              Join(requests[i].url) = Join(base_url) \o Join(Normalize(urls[j]))
        /\ \A j \in 1..Len(urls) : Join(requests[i].url) # Join(Normalize(urls[j]))

\* ---------------------------------------------------------------------- C7
\* The two progress events every query hands the sink before the POST.
ProgressEvents ==
    <<StatusEvent(<<"Preparing to search knowledge base...">>, "in_progress", FALSE),
      StatusEvent(<<"Searching knowledge base for: ">> \o query, "searching", FALSE)>>

\* The citation event the spec gives for a document record, with its defaults.
ExpectedCitation(r) ==
    [type |-> "citation",
     data |-> [document |-> IF r.content = <<>> THEN <<>> ELSE r.content[1],
               metadata |-> IF r.metadata = <<>> THEN {} ELSE r.metadata[1],
               source |-> IF r.source = <<>> THEN <<"knowledge_base">> ELSE r.source[1]]]

AllDocuments(rs) == \A i \in 1..Len(rs) : rs[i].isdict

\* The POST was answered 2xx with a JSON object whose status field is st.
Answered(st) == response # <<>> /\ response[1].status = <<st>>

\* C7: for a response with status "success" and n >= 1 document records, a query
\* whose sink does not raise returns the n results as received, after handing
\* the sink the two progress events, then one status event "success" with done =
\* true announcing n, then exactly n citation events, the i-th carrying content,
\* metadata and source of the i-th result (defaults: empty text, empty mapping,
\* "knowledge_base").
C7_SuccessCitations ==
    (Returned /\ Answered("success") /\ results # <<>> /\ AllDocuments(results)
        /\ ~SinkRaised) =>
        /\ retval = <<response[1].results[1]>>
        /\ HasSink =>
              /\ Len(sinkLog) = Len(results) + 3
              /\ SubSeq(sinkLog, 1, 2) = ProgressEvents
              /\ sinkLog[3] =
                    StatusEvent(<<"Found ", ToStr(Len(results)), " relevant documents">>,
                                "success", TRUE)
              /\ \A i \in 1..Len(results) :
                    sinkLog[3 + i] = ExpectedCitation(results[i])

\* Two results, one with all its fields and one with none, cited in that order.
C7_Witness ==
    /\ Returned /\ Answered("success") /\ HasSink /\ ~SinkRaised
    /\ Len(results) = 2
    /\ results[1].content # <<>> /\ results[2].content = <<>>
    /\ results[1].isdict /\ results[2].isdict
    /\ Len(sinkLog) = 5

\* ---------------------------------------------------------------------- C8
\* An exception occurs in query's try block: by the inputs (the POST fails, the
\* response has no status field, a result of a "success" response is no
\* mapping), or by the sink raising.
InputFails ==
    \/ outcomes = <<"failed">>
    \/ response # <<>> /\ response[1].status = <<>>
    \/ Answered("success") /\ ~AllDocuments(results)

\* C8: whenever the POST fails or an exception occurs while the response is
\* processed, a query that returns has run its except clause, returns the empty
\* sequence, and the last event it handed the sink is the status event of fail
\* (status "error", done = true), so no citation follows it; query raises only
\* if the sink raised.
C8_FailureReturnsEmpty ==
    /\ (Returned /\ InputFails) => error_msg # <<>>
    /\ (Returned /\ error_msg # <<>>) =>
          /\ retval = <<<<>>>>
          /\ calls[Len(calls)] = [method |-> "fail", args |-> <<error_msg>>]
          /\ HasSink =>
                sinkLog[Len(sinkLog)] = StatusEvent(error_msg, "error", TRUE)
    /\ Raised => SinkRaised

\* A "success" response whose second result is no mapping: one citation was
\* emitted, then the failure status, and the empty sequence is returned.
C8_Witness ==
    /\ Returned /\ Answered("success") /\ event_emitter = "plain"
    /\ Len(results) = 2 /\ results[1].isdict /\ ~results[2].isdict
    /\ Len(sinkLog) = 5
    /\ sinkLog[4].type = "citation"
    /\ retval = <<<<>>>>

\* ---------------------------------------------------------------------- C9
\* C9: for a response with status "success" and an empty results array, a query
\* whose sink does not raise returns the empty sequence after handing the sink
\* the two progress events and one status event "no_results" with done = true
\* (description: the response's message or the default), and no citation event.
C9_NoResults ==
    (Returned /\ Answered("success") /\ results = <<>> /\ ~SinkRaised) =>
        /\ retval = <<<<>>>>
        /\ HasSink =>
              sinkLog = ProgressEvents \o
                 <<StatusEvent(IF response[1].message = <<>>
                               THEN <<"No relevant documents found">>
                               ELSE response[1].message[1],
                               "no_results", TRUE)>>

\* {"status": "success", "results": []} answered to a query with a sink.
C9_Witness ==
    /\ Returned /\ Answered("success") /\ HasSink /\ ~SinkRaised
    /\ response[1].results = <<<<>>>>
    /\ response[1].message = <<>>
    /\ Len(sinkLog) = 3

\* --------------------------------------------------------------------- C10
\* C10: for a response whose status is not "success", a query whose sink does
\* not raise returns the response's results as received, empty or not, after
\* handing the sink the two progress events and one status event "error" with
\* done = true (description: the response's message or "Query failed"), and no
\* citation event.
C10_ErrorStatus ==
    (Returned /\ Answered("error") /\ ~SinkRaised) =>
        /\ retval = <<IF response[1].results = <<>> THEN <<>> ELSE response[1].results[1]>>
        /\ HasSink =>
              sinkLog = ProgressEvents \o
                 <<StatusEvent(IF response[1].message = <<>>
                               THEN <<"Query failed">>
                               ELSE response[1].message[1],
                               "error", TRUE)>>

\* An "error" response that carries two results and a message.
C10_Witness ==
    /\ Returned /\ Answered("error") /\ HasSink /\ ~SinkRaised
    /\ response[1].message # <<>>
    /\ Len(results) = 2
    /\ retval = <<results>>

\* --------------------------------------------------------------------- C11
RECURSIVE EmittedUpTo(_)
\* the sink invocations made by calls[1..c]
EmittedUpTo(c) == IF c = 0 THEN 0 ELSE emitted[c] + EmittedUpTo(c - 1)

RECURSIVE CallOfFrom(_, _)
CallOfFrom(p, c) == IF EmittedUpTo(c) >= p THEN c ELSE CallOfFrom(p, c + 1)

\* the call that handed the sink its p-th event: calls are sequential, so it is
\* the first call by whose end p events had been handed over
CallOf(p) == CallOfFrom(p, 1)

\* t ends with the tokens of suffix
EndsWith(t, suffix) ==
    Len(t) >= Len(suffix) /\ SubSeq(t, Len(t) - Len(suffix) + 1, Len(t)) = suffix

\* The event is one that the reporter call c issues: its kind and its payload,
\* whatever the status prefix.
EventOfCall(ev, c) ==
    CASE c.method = "status" ->
            /\ ev.type = "status"
            /\ ev.data.status = c.args[2] /\ ev.data.done = c.args[3]
            /\ EndsWith(ev.data.description, c.args[1])
      [] c.method = "fail" ->
            /\ ev.type = "status"
            /\ EndsWith(ev.data.description, c.args[1])
      [] c.method = "citation" -> ev.type = "citation" /\ ev.data.document = c.args[1]
      [] c.method = "message" -> ev.type = "message" /\ ev.data.content = c.args[1]
      [] c.method = "code_execution_result" ->
            ev.type = "code_execution_result" /\ ev.data.output = c.args[1]
      [] OTHER -> FALSE

\* calls[i] has returned to its caller
Completed(i) == i < Len(calls) \/ (pending = <<>> /\ ~awaiting)

\* The sink has received, in the order of the calls, the events of the calls and
\* nothing else; a call that has returned from a sink that returns has handed
\* over its event; only a sink that raises, or one that is no callable, makes a
\* call raise; while the task is suspended the event in flight is the one
\* handed over last.
EmissionOrder ==
    /\ Len(sinkLog) = EmittedUpTo(Len(calls))
    /\ \A p \in 1..Len(sinkLog) : EventOfCall(sinkLog[p], calls[CallOf(p)])
    /\ \A i \in 1..Len(calls) :
          (Completed(i) /\ event_emitter \in {"plain", "awaitable"}
              /\ calls[i].method # "set_status_prefix") => emitted[i] >= 1
    /\ exc # <<>> => event_emitter \in {"raising", "noncallable"}
    /\ awaiting =>
          /\ event_emitter = "awaitable"
          /\ pending # <<>> /\ Head(pending) = sinkLog[Len(sinkLog)]

\* While the awaitable of the sink is unresolved, no further event reaches the
\* sink and no further reporter call is issued.
SuspendedUntilResolved ==
    awaiting => (sinkLog' = sinkLog /\ calls' = calls /\ pc' = pc)

\* C11: for every sequence of reporter calls of one task the sink receives the
\* events in the order the calls were issued, for both sink shapes; with a sink
\* that returns an awaitable the call does not return, and the next event is not
\* handed over, before the awaitable has resolved; with a sink that returns a
\* plain value the call returns without raising.
C11_EmissionOrder == []EmissionOrder /\ [][SuspendedUntilResolved]_vars

\* An asynchronous sink has received the events of a status call and then of a
\* citation call, and both calls have returned.
C11_Witness ==
    /\ pc = "idle" /\ event_emitter = "awaitable" /\ Ready
    /\ Len(calls) = 2
    /\ calls[1].method = "status" /\ calls[2].method = "citation"
    /\ sinkLog[1].type = "status"
    /\ sinkLog[Len(sinkLog)].type = "citation"

\* --------------------------------------------------------------------- C12
\* the character string s without its leading and trailing white space
Trimmed(s) ==
    LET solid == {j \in 1..Len(s) : SubSeq(s, j, j) \notin Whitespace}
    IN IF solid = {} THEN ""
       ELSE SubSeq(s, CHOOSE a \in solid : \A j \in solid : a <= j,
                      CHOOSE b \in solid : \A j \in solid : j <= b)

\* the characters of the body up to its last "Images:", trimmed; all the
\* characters of the body when it has none
CutAtLastMarker(body) ==
    LET s == Join(body)
        at == Occurrences(s, "Images:")
    IN IF at = {} THEN s
       ELSE Trimmed(SubSeq(s, 1, (CHOOSE a \in at : \A j \in at : j <= a) - 1))

\* C12: the content of a "## Web Scrape Result for {url}" block is the body of
\* the upstream answer cut at the last occurrence of "Images:" (that occurrence
\* and what follows it dropped, earlier occurrences kept) and trimmed; a body
\* without the marker is included in full.
C12_CutAtLastMarker ==
    [][(/\ Len(all_results') = Len(all_results) + 1
        /\ Head(all_results'[Len(all_results')]) = ResultMarker)
       => /\ answers # <<>>
          /\ Join(all_results'[Len(all_results')]) =
                ResultMarker \o Join(url) \o ": \n\n"
                    \o CutAtLastMarker(answers[Len(answers)]) \o "\n\n"]_vars

\* A block was built from a body with two occurrences of the marker and
\* whitespace around the part that is kept.
C12_Witness ==
    \E i \in 1..Len(all_results) :
        /\ i <= Len(answers)
        /\ Cardinality(Occurrences(Join(answers[i]), "Images:")) = 2
        /\ Join(all_results[i]) =
              ResultMarker \o Join(Normalize(urls[i]))
                  \o ": \n\nintro Images:caption\n\n"

\* --------------------------------------------------------------------- C13
\* the event carries done = true
IsDone(ev) == ev.type = "status" /\ ev.data.done

\* C13: in a scrape of N >= 1 URLs, whatever the outcomes of the URLs, an event
\* with done = true is never followed by another event, and once the scrape has
\* returned the last event the sink received is the status "complete" with
\* done = true that reports N; every earlier event, the progress and the failure
\* statuses of the URLs among them, has done = false.
C13_TerminalStatusLast ==
    (pc # "scrape_start" /\ Len(urls) >= 1) =>
        /\ \A p \in 1..Len(sinkLog) : IsDone(sinkLog[p]) => p = Len(sinkLog)
        /\ (Returned /\ HasSink) =>
              /\ sinkLog # <<>>
              /\ sinkLog[Len(sinkLog)] =
                    StatusEvent(<<"Completed scraping ", ToStr(Len(urls)), " URLs">>,
                                "complete", TRUE)
              /\ \A p \in 1..(Len(sinkLog) - 1) :
                    IsStatus(sinkLog[p]) /\ ~sinkLog[p].data.done

\* Two URLs, one failed and one met an unexpected exception, and the scrape has
\* returned after its completion status.
C13_Witness ==
    /\ Returned /\ HasSink /\ Len(urls) = 2
    /\ outcomes = <<"failed", "unexpected">>
    /\ \E p \in 1..Len(sinkLog) : sinkLog[p].data.status = "error"
    /\ sinkLog[Len(sinkLog)].data.status = "complete"

\* --------------------------------------------------------------------- C14
\* C14 as stated: a query that has returned has delivered exactly one status
\* event with done = true, and a query that has delivered a citation does not
\* return an empty list, on every path, an exception raised after the "success"
\* status included.
C14_OneTerminalStatus ==
    (variant = "kb" /\ Returned /\ HasSink) =>
        /\ Len(SelectSeq(sinkLog, IsDone)) = 1
        /\ (\E p \in 1..Len(sinkLog) : sinkLog[p].type = "citation") => retval # <<<<>>>>

\* --------------------------------------------------------------------- C15
RECURSIVE LastPrefix(_)
\* the argument of the latest set_status_prefix among calls[1..i], the prefix
\* of the constructor if there is no such call
LastPrefix(i) ==
    IF i = 0 THEN initial_prefix
    ELSE IF calls[i].method = "set_status_prefix" THEN <<calls[i].args[1]>>
    ELSE LastPrefix(i - 1)

\* the text the prefix in force at calls[i] puts before a description
PrefixAt(i) == IF LastPrefix(i - 1) = <<>> THEN <<>> ELSE LastPrefix(i - 1)[1]

\* C15: the stored prefix is the argument of the latest set_status_prefix call
\* and no other call changes it; every event of a status or fail call carries
\* the description of the call behind the prefix in force at the call, and a
\* call that returned from a returning sink has emitted such an event; the
\* payload of a citation, message or code_execution_result event is the
\* arguments of its call, whatever the prefix.
C15_StatusPrefix ==
    /\ status_prefix = LastPrefix(Len(calls))
    /\ \A p \in 1..Len(sinkLog) :
          LET i == CallOf(p)
              c == calls[i]
              ev == sinkLog[p]
          IN CASE c.method \in {"status", "fail"} ->
                     ev.data.description = PrefixAt(i) \o c.args[1]
               [] c.method = "citation" ->
                     ev.data = [document |-> c.args[1], metadata |-> c.args[2],
                                source |-> c.args[3]]
               [] c.method = "message" -> ev.data = [content |-> c.args[1]]
               [] c.method = "code_execution_result" -> ev.data = [output |-> c.args[1]]
               [] OTHER -> FALSE
    /\ \A i \in 1..Len(calls) :
          (/\ calls[i].method \in {"status", "fail"}
           /\ Completed(i) /\ event_emitter \in {"plain", "awaitable"})
          => \E p \in 1..Len(sinkLog) : CallOf(p) = i

\* The prefix was set twice to different values and a later status call emitted
\* its description behind the second one.
C15_Witness ==
    /\ pc = "idle" /\ Len(calls) = 3 /\ Ready /\ HasSink
    /\ calls[1].method = "set_status_prefix" /\ calls[2].method = "set_status_prefix"
    /\ calls[1].args # calls[2].args
    /\ calls[3].method = "status"
    /\ sinkLog # <<>>
    /\ sinkLog[1].data.description = calls[2].args[1] \o calls[3].args[1]

\* --------------------------------------------------------------------- C16
\* What the requests of a scrape issued so far look like: at most one GET for
\* each position of the loop it has entered, and they are the GETs of the
\* discovered URLs whose iteration reached the request, in discovery order.
ScrapeRequestsBounded ==
    variant = "jina" =>
       /\ Len(requests) <= idx /\ idx <= Len(urls)
       /\ \A j \in 1..Len(requests) : requests[j].method = "GET"
       /\ Len(outcomes) <= idx
       /\ Len(requests) = Built(Len(outcomes))
       /\ \A j \in 1..Len(outcomes) :
             outcomes[j] \notin {"invalid", "interrupted"} => Requested(j)

\* What the requests issued so far look like, as stated: a query has issued at
\* most its one POST, and exactly that one when it has returned.
RequestsExact ==
    /\ variant = "kb" =>
          /\ Len(requests) <= 1
          /\ \A j \in 1..Len(requests) : requests[j] = PostRequest(query)
          /\ Returned => Len(requests) = 1
    /\ ScrapeRequestsBounded

\* What the requests issued so far look like: a query has issued at most its one
\* POST; when it has returned it has issued that one, unless the sink raised an
\* Exception on one of the two progress events that precede the POST: then it
\* has issued none.
RequestsBounded ==
    /\ variant = "kb" =>
          /\ Len(requests) <= 1
          /\ \A j \in 1..Len(requests) : requests[j] = PostRequest(query)
          /\ Returned =>
                IF RaisedOn({ProgressEvents[1].data.description,
                             ProgressEvents[2].data.description})
                THEN requests = <<>>
                ELSE Len(requests) = 1
    /\ ScrapeRequestsBounded

\* A step that issues a request issues one request: the POST of a query that has
\* issued none, or the GET of the URL at the loop position, which has had no GET
\* yet and is reached with the blocks of all earlier URLs appended; the loop
\* position never goes back.
RequestStep ==
    /\ variant = "jina" => idx' >= idx
    /\ requests' # requests =>
          /\ Len(requests') = Len(requests) + 1
          /\ SubSeq(requests', 1, Len(requests)) = requests
          /\ variant = "kb" =>
                requests = <<>> /\ requests'[1] = PostRequest(query)
          /\ variant = "jina" =>
                /\ idx \in 1..Len(urls) /\ idx' = idx
                /\ url = Normalize(urls[idx])
                /\ requests'[Len(requests')] = GetRequest(<<JoinedUrl(idx).value>>)
                /\ Len(requests) <= idx - 1
                /\ Len(all_results) = idx - 1

\* C16 as stated: outbound requests are sequential and bounded: a query issues
\* exactly one POST; a scrape over N URLs issues at most one GET per URL, in
\* discovery order, the GET of URL i+1 only after the block of URL i was
\* appended; no request is repeated or retried.
C16_ExactlyOnePost == []RequestsExact /\ [][RequestStep]_vars

\* C16 amended: outbound requests are sequential and bounded: a query issues at
\* most one POST, and one that has returned has issued exactly one unless the
\* sink raised an Exception on one of the two progress events that precede the
\* POST, in which case it has issued none; a scrape over N URLs issues at most
\* one GET per URL, in discovery order, the GET of URL i+1 only after the block
\* of URL i was appended; no request is repeated or retried.
C16_SequentialRequests == []RequestsBounded /\ [][RequestStep]_vars

\* A scrape of two URLs has returned after one GET for each, the first of which
\* ended in an exception that is no requests.RequestException.
C16_Witness ==
    /\ variant = "jina" /\ Returned /\ Len(urls) = 2
    /\ Len(requests) = 2 /\ Len(all_results) = 2
    /\ outcomes[1] = "unexpected"
    /\ requests[2] = GetRequest(<<Join(Normalize(urls[2]))>>)

\* --------------------------------------------------------------------- C17
\* The block of all_results for a URL, from the URL and the answer of its GET
\* (for a URL that urljoin rejects: str(e) of its ValueError).
BlockOf(u, outcome, answer) ==
    CASE outcome = "ok" -> ResultBlock(u, ExtractContent(answer))
      [] outcome = "failed" -> ErrorBlock(u, ScrapeErrorMsg(u, answer))
      [] outcome \in {"unexpected", "invalid"} ->
            ProcessingBlock(u, UnexpectedErrorMsg(u, answer))

\* What scrape returns for an input text and the answers of its GETs: a function
\* of the input and of the upstream answers alone.
ScrapeValue(text, outs, answs) ==
    LET found == FindAll(text)
    IN IF found = <<>> THEN NoUrlsMessage
       ELSE Flatten([i \in 1..Len(found) |->
                        BlockOf(Normalize(found[i]), outs[i], answs[i])])

\* What query returns for the answer of its POST: a function of the upstream
\* answer alone.
QueryValue(outcome, answer) ==
    IF outcome = "failed" THEN <<>>
    ELSE LET rs == Get(answer.results, <<>>)
         IN IF answer.status = <<>> THEN <<>>
            ELSE IF answer.status = <<"success">> /\ ~AllDocuments(rs) THEN <<>>
            ELSE rs

\* C17: with no sink configured every reporter call completes without invoking
\* anything: nothing is handed over, nothing is awaited, nothing is raised; and
\* what scrape and query return is determined by the input and the upstream
\* answers alone, so it is the same without a sink as with a sink that does not
\* raise.
C17_NoSinkSameResult ==
    /\ event_emitter = "none" =>
          /\ sinkLog = <<>> /\ pending = <<>> /\ ~awaiting /\ exc = <<>>
          /\ \A i \in 1..Len(emitted) : emitted[i] = 0
    /\ (pc = "returned" /\ ~SinkRaised) =>
          retval = <<IF variant = "jina" THEN ScrapeValue(query, outcomes, answers)
                     ELSE QueryValue(outcomes[1], answers[1])>>

\* Without a sink a scrape of two URLs, one answered and one failed, has gone
\* through its reporter calls and returned its two blocks.
C17_Witness ==
    /\ event_emitter = "none" /\ variant = "jina" /\ pc = "returned"
    /\ Len(urls) = 2 /\ outcomes = <<"ok", "failed">>
    /\ Len(calls) >= 8 /\ sinkLog = <<>>
    /\ retval = <<all_results[1] \o all_results[2]>>

\* --------------------------------------------------------------------- C19
\* the events that calls[i] handed the sink, in order
EventsOf(i) == SubSeq(sinkLog, EmittedUpTo(i - 1) + 1, EmittedUpTo(i))

IsFailCall(c) == c.method = "fail"
IsErrorStatusCall(c) == c.method = "status" /\ c.args[2] = "error" /\ c.args[3]

\* C19: fail(description) is equivalent to status(description, "error", true):
\* for every description and stored prefix, a call of either that has ended has
\* handed a configured sink exactly one event, the status event with status
\* "error", done = true and the description behind the prefix, and nothing
\* without a sink; so a fail call and such a status call with the same
\* description and prefix have delivered the same events.
C19_FailIsErrorStatus ==
    /\ \A i \in 1..Len(calls) :
          ((IsFailCall(calls[i]) \/ IsErrorStatusCall(calls[i])) /\ Completed(i)) =>
              EventsOf(i) = IF HasSink
                            THEN <<StatusEvent(PrefixAt(i) \o calls[i].args[1], "error", TRUE)>>
                            ELSE <<>>
    /\ \A i, j \in 1..Len(calls) :
          (/\ IsFailCall(calls[i]) /\ IsErrorStatusCall(calls[j])
           /\ calls[i].args[1] = calls[j].args[1] /\ PrefixAt(i) = PrefixAt(j)
           /\ Completed(i) /\ Completed(j))
          => EventsOf(i) = EventsOf(j)

\* Behind a stored prefix, a fail call and a status call with status "error"
\* and done = true, both with the same description, have each handed the sink
\* their event.
C19_Witness ==
    /\ pc = "idle" /\ HasSink /\ Ready /\ Len(calls) = 3
    /\ calls[1].method = "set_status_prefix"
    /\ IsFailCall(calls[2]) /\ IsErrorStatusCall(calls[3])
    /\ calls[2].args[1] = calls[3].args[1]
    /\ Len(sinkLog) = 2 /\ sinkLog[1] = sinkLog[2]
    /\ StartsWith(sinkLog[1].data.description, calls[1].args[1])

\* --------------------------------------------------------------------- C18
\* The invocations on the Tools object: the one that runs and the other one.
Tasks == {Task} \cup {parked[i] : i \in 1..Len(parked)}

\* The sink of the invocation t has raised.
TaskSinkRaised(t) ==
    \/ t.event_emitter = "raising" /\ Len(t.sinkLog) >= t.raiseAt
    \/ t.event_emitter = "noncallable"

\* The events a status call of a workflow of class v hands its sink.
StatusEvents(v, description, st, done) ==
    IF v = "jina" /\ ~done /\ TextLen(description) <= DescriptionLimit
    THEN <<StatusEvent(description, st, done), StatusEvent(description, st, done)>>
    ELSE <<StatusEvent(description, st, done)>>

\* The events of the three status calls that precede the GET of the URL u.
ProgressEventsOf(u) ==
    StatusEvents("jina", <<"Initiating Jina web scrape for: ">> \o u, "in_progress", FALSE)
    \o StatusEvents("jina", <<"Preparing request to Jina service for ">> \o u \o <<"...">>,
                    "in_progress", FALSE)
    \o StatusEvents("jina", <<"Sending request to Jina service for ">> \o u \o <<"...">>,
                    "in_progress", FALSE)

\* The events of the iteration for the URL u, from the URL and the answer of its
\* GET (for a URL that urljoin rejects: str(e) of its ValueError).
UrlEvents(u, outcome, answer) ==
    CASE outcome = "ok" ->
            ProgressEventsOf(u)
            \o StatusEvents("jina", <<"Processing response from Jina service for ">>
                                    \o u \o <<"...">>, "in_progress", FALSE)
      [] outcome = "failed" ->
            ProgressEventsOf(u)
            \o StatusEvents("jina", ScrapeErrorMsg(u, answer), "error", FALSE)
      [] outcome = "unexpected" ->
            ProgressEventsOf(u)
            \o StatusEvents("jina", UnexpectedErrorMsg(u, answer), "error", FALSE)
      [] outcome = "invalid" ->
            StatusEvents("jina", UnexpectedErrorMsg(u, answer), "error", FALSE)

RECURSIVE LoopEvents(_, _, _, _)
\* The events of the first n iterations of the loop over the URLs found.
LoopEvents(found, outs, answs, n) ==
    IF n = 0 THEN <<>>
    ELSE LoopEvents(found, outs, answs, n - 1)
         \o UrlEvents(Normalize(found[n]), outs[n], answs[n])

\* The events a scrape of the input text hands its sink up to the end of the
\* iteration that follows the n answered ones (all of its events, if it has
\* returned): a function of the input and of the upstream answers alone.
ScrapeEvents(found, outs, answs, n) ==
    IF found = <<>>
    THEN StatusEvents("jina", <<"No valid URLs found in the input">>, "complete", TRUE)
    ELSE StatusEvents("jina", <<"Found ", ToStr(Len(found)), " URLs to scrape">>,
                      "in_progress", FALSE)
         \o LoopEvents(found, outs, answs, n)
         \o (IF n < Len(found)
             THEN ProgressEventsOf(Normalize(found[n + 1]))
             ELSE StatusEvents("jina", <<"Completed scraping ", ToStr(Len(found)), " URLs">>,
                               "complete", TRUE))

RECURSIVE CitationEvents(_)
\* The events of the citation loop over the results rs: it ends at the first
\* element that is no JSON object, with the failure event of the handler.
CitationEvents(rs) ==
    IF rs = <<>> THEN <<>>
    ELSE IF Head(rs).isdict
    THEN <<ExpectedCitation(Head(rs))>> \o CitationEvents(Tail(rs))
    ELSE <<StatusEvent(QueryErrorMsg(AttributeErrorGet), "error", TRUE)>>

\* The events of a query after the two progress events, from the answer of its
\* POST.
AnswerEvents(outcome, answer) ==
    IF outcome = "failed"
    THEN <<StatusEvent(QueryErrorMsg(answer), "error", TRUE)>>
    ELSE IF answer.status = <<>>
    THEN <<StatusEvent(QueryErrorMsg(KeyErrorStatus), "error", TRUE)>>
    ELSE <<StatusEvent(ResponseStatus(answer)[1], ResponseStatus(answer)[2], TRUE)>>
         \o (IF ResponseStatus(answer)[2] = "success"
             THEN CitationEvents(Get(answer.results, <<>>))
             ELSE <<>>)

\* The events a query hands its sink up to the POST, and all of them once the
\* POST is answered: a function of the input and of the upstream answer alone.
QueryEvents(q, outs, answs) ==
    <<StatusEvent(<<"Preparing to search knowledge base...">>, "in_progress", FALSE),
      StatusEvent(<<"Searching knowledge base for: ">> \o q, "searching", FALSE)>>
    \o (IF outs = <<>> THEN <<>> ELSE AnswerEvents(outs[1], answs[1]))

\* The events of the invocation t when it runs alone.
EventsAlone(t) ==
    IF t.variant = "jina"
    THEN ScrapeEvents(FindAll(t.query), t.outcomes, t.answers, Len(t.outcomes))
    ELSE QueryEvents(t.query, t.outcomes, t.answers)

\* The value of the invocation t when it runs alone.
ValueAlone(t) ==
    IF t.variant = "jina" THEN ScrapeValue(t.query, t.outcomes, t.answers)
    ELSE QueryValue(t.outcomes[1], t.answers[1])

\* The sink of t has received the events that t hands it when it runs alone, as
\* far as t has come, and t has returned what it returns alone.
SameAsAlone(t, events) ==
    /\ IF t.event_emitter = "none" THEN t.sinkLog = <<>>
       ELSE /\ StartsWith(events, t.sinkLog)
            /\ t.pc = "returned" => t.sinkLog = events
    /\ t.pc = "returned" => t.retval = <<ValueAlone(t)>>

\* What a scrape holds is its own: its URLs are those of its input, its blocks
\* are those of its URLs, in order, and its requests are the GETs of its URLs.
OwnScrape(t) ==
    /\ t.urls \in {<<>>, FindAll(t.query)}
    /\ Len(t.all_results) <= Len(t.urls)
    /\ \A i \in 1..Len(t.all_results) :
          /\ Head(t.all_results[i]) \in {ResultMarker, ErrorMarker, ProcessingMarker}
          /\ StartsWith(Tail(t.all_results[i]), Normalize(t.urls[i]))
    /\ \A j \in 1..Len(t.requests) :
          \E i \in 1..Len(t.urls) :
             t.requests[j]
                = GetRequest(<<urljoin(Join(base_url), Join(Normalize(t.urls[i]))).value>>)

\* What a query holds is its own: its request carries its input, and its
\* results are those of the answer to its request.
OwnQuery(t) ==
    /\ \A j \in 1..Len(t.requests) : t.requests[j] = PostRequest(t.query)
    /\ t.results # <<>> => t.answers # <<>> /\ t.results = Get(t.answers[1].results, <<>>)

\* Every invocation is as it is when it runs alone, whatever the other one does:
\* it holds what is its own, and as long as its own sink has not raised, its
\* events and its value are those of a run alone.
Isolated ==
    \A t \in Tasks :
        /\ IF t.variant = "jina" THEN OwnScrape(t) ELSE OwnQuery(t)
        /\ ~TaskSinkRaised(t) => SameAsAlone(t, EventsAlone(t))

\* A step that lets the other invocation run changes neither of the two, and a
\* step of the invocation that runs leaves the other one as it is.
OtherUntouched ==
    parked # <<>> =>
        \/ parked' = parked
        \/ parked' = <<Task>> /\ Task' = parked[1]

\* C18: for any interleaving of two invocations on the same Tools object, each
\* with its own sink, the sequence of events each sink receives and the value
\* each invocation returns are the same as when that invocation runs alone: no
\* step of one invocation changes anything the other one holds, each holds the
\* URLs, blocks, requests and results of its own input and answers, and, as
\* long as its own sink has not raised, its events and its value are the
\* function of its own input and of the answers to its own requests that they
\* are for an invocation that runs alone.
C18_NoInterference == []Isolated /\ [][OtherUntouched]_vars

\* Two invocations, a scrape and a query, each with a sink of its own that
\* returns awaitables, are both suspended in the middle of their runs, each
\* after its request was answered.
C18_Witness ==
    /\ parked # <<>>
    /\ awaiting /\ parked[1].awaiting
    /\ variant # parked[1].variant
    /\ outcomes # <<>> /\ parked[1].outcomes # <<>>
    /\ sinkLog # <<>> /\ parked[1].sinkLog # <<>>

====
